---- MODULE Spec2Model ----
(***************************************************************************)
(* MAVKUS AI backend: the per-user orchestrator (src/mavkus.py), the       *)
(* memoised instance factory and the HTTP handlers that use it             *)
(* (src/server.py) and the credential store (src/firebase_service.py).     *)
(*                                                                         *)
(* Conventions of the model                                                *)
(*  - a text (user message, model response) is a sequence of words; the    *)
(*    Python test `kw in text.lower()` is Contains(kw, text);              *)
(*  - a float is an exact rational <<numerator, denominator>> in lowest    *)
(*    terms (rounding of IEEE doubles is not modelled);                    *)
(*  - a JSON value produced by the critic is a tagged record (JNum, JStr,  *)
(*    JNull); a critique payload is a record telling its JSON shape;       *)
(*  - datetime.now().isoformat() is the single abstract stamp Now: no      *)
(*    branch of the code reads a clock value;                              *)
(*  - an exception leaving a method is the field `raised` of its result,   *)
(*    with the state as mutated up to the raising statement.               *)
(***************************************************************************)
EXTENDS Integers, Sequences, FiniteSets, TLC

VARIABLES
    firestore,   \* users/{user_id} documents: [exists, api_keys]
    env,         \* process environment: the GROQ_API_KEY fallback
    cache,       \* lru_cache of _create_ai_instance: user ids, least recent first
    ai,          \* the MavkusAI instance each cache entry holds
    files,       \* user_memories/mavkus_memory_<user_id>.json
    last,        \* the last operation and what it returned to its caller
    log,         \* per user, what has happened since the last clear (history variable)
    restarts,    \* how often the server process was restarted (history variable)
    loop,        \* the event loop: chat requests accepted, and those being handled
    genai,       \* the API key google.generativeai is configured with, process-wide
    turn         \* the call of chat in progress: its phase, arguments and locals

vars == <<firestore, env, cache, ai, files, last, log, restarts, loop, genai, turn>>

-----------------------------------------------------------------------------
(* Bounds of the model *)

\* chat turns a single instance is driven through in the turn-level specifications
MaxTurns == 5
\* chat turns of one instance in the server-level specification
MaxServerTurns == 1
\* restarts of the server process
MaxRestarts == 1
\* calls of clear_memory per user
MaxClears == 2
\* chat turns in the specification of well-formed and unusable critic replies
MaxScoreTurns == 4
\* chat turns in the long-run specification (history longer than the save window)
MaxDeepTurns == 30
\* consultations of one specialist
MaxConsults == 4
\* chat turns in the specification of the generalist's input (history longer
\* than the prompt window)
MaxPromptTurns == 6
\* chat turns in the specification of the trend (more critiques than the trend holds)
MaxTrendTurns == 23
\* chat turns in the specification of the style classifier
MaxStyleTurns == 3
\* chat turns in the specification of the topics of interest
MaxTopicTurns == 3
\* chat turns in the specification of the save cadence (two saves due)
MaxCadenceTurns == 10
\* words of a message given to the routing rule
MaxLen == 3
\* chat requests the event loop holds at one time
MaxPending == 3

-----------------------------------------------------------------------------
(* Program constants *)

TOPICS_CAP == 10
TREND_CAP == 20
AREAS_CAP == 5
SAVE_EVERY == 5
PROMPT_WINDOW == 10
SAVE_WINDOW == 50
QUESTION_EXCERPT == 100
LRU_MAXSIZE == 100
DEFAULT_SCORE == 7
STRONG_MIN == 8
WEAK_MAX == 5
ROUTE_MIN == 2

-----------------------------------------------------------------------------
(* Generic helpers *)

Min(a, b) == IF a < b THEN a ELSE b

Abs(n) == IF n < 0 THEN -n ELSE n

RECURSIVE GCD(_, _)
GCD(a, b) == IF b = 0 THEN a ELSE GCD(b, a % b)

\* the rational n/d (d # 0) in lowest terms with a positive denominator
Rat(n, d) ==
    LET g == GCD(Abs(n), Abs(d))
        s == IF d < 0 THEN -1 ELSE 1
    IN  <<(s * n) \div g, (s * d) \div g>>

RatOfInt(n) == <<n, 1>>

\* Python list slice xs[-n:]
LastN(xs, n) ==
    IF Len(xs) <= n THEN xs ELSE SubSeq(xs, Len(xs) - n + 1, Len(xs))

\* Python slice xs[:n]
FirstN(xs, n) == SubSeq(xs, 1, Min(Len(xs), n))

InSeq(x, xs) == \E i \in 1..Len(xs) : xs[i] = x

Now == "ts"

-----------------------------------------------------------------------------
(* Texts *)

\* str.lower() on the words of the vocabulary
lower(w) ==
    CASE w = "Ciao" -> "ciao"
      [] w = "FISICA" -> "fisica"
      [] w = "Atomo" -> "atomo"
      [] w = "Python" -> "python"
      [] w = "Per" -> "per"
      [] OTHER -> w

\* the vocabulary words inside which a shorter keyword occurs as a substring
substrings(w) ==
    CASE w = "biofisica" -> {"biofisica", "fisica"}
      [] w = "they" -> {"they", "hey"}
      [] OTHER -> {w}

\* the keywords of two words that occur in the lowercased text: the words of
\* a message are joined by single spaces
phrases(text) ==
    {"per favore" : i \in {j \in 1..(Len(text) - 1) :
                              lower(text[j]) = "per" /\ lower(text[j + 1]) = "favore"}}

\* message.lower(), kept as the set of vocabulary words and keywords that occur
\* in the lowercased text as substrings
Lower(text) == UNION {substrings(lower(text[i])) : i \in 1..Len(text)} \cup phrases(text)

\* kw in message_lower: a substring test, so a keyword inside a longer word counts
Contains(kw, text_lower) == kw \in text_lower

-----------------------------------------------------------------------------
(* JSON values as the critic can return them *)

JNum(n) == [t |-> "num", n |-> n]
JStr == [t |-> "str", n |-> 0]
JNull == [t |-> "null", n |-> 0]

\* Python accepts a value in `current_avg * (count - 1) + score` and in
\* `value >= 8` only when it is a number
IsNumber(v) == v.t = "num"

\* a JSON object as the critic returns it; `scores` keeps the key order of the text
Payload(has_overall, overall, scores_shape, scores) ==
    [shape |-> "object", has_overall |-> has_overall, overall |-> overall,
     scores_shape |-> scores_shape, scores |-> scores]

\* a JSON text that is valid but not an object (an array)
ArrayPayload ==
    [shape |-> "array", has_overall |-> FALSE, overall |-> JNull,
     scores_shape |-> "absent", scores |-> <<>>]

\* the `critique = {}` of a turn with enable_critique = False
EmptyCritique ==
    [shape |-> "object", has_overall |-> FALSE, overall |-> JNull,
     scores_shape |-> "absent", scores |-> <<>>]

-----------------------------------------------------------------------------
(* GeminiSpecialist *)

\* __init__: available only when the library imported, a key was given and
\* genai.configure succeeded (lib_ok)
GeminiSpecialist(api_key, lib_ok) ==
    [name |-> "Gemini Pro", consultations |-> 0, successes |-> 0,
     available |-> (lib_ok /\ api_key # 0)]

\* a consult without the try around generate_content: a failure of the
\* capability leaves consult as an exception
consult_unguarded(g, outcome) ==
    IF ~g.available
    THEN [gemini |-> g, success |-> FALSE, answer |-> <<"Gemini non disponibile">>,
          called |-> FALSE, raised |-> FALSE]
    ELSE LET g1 == [g EXCEPT !.consultations = @ + 1]
         IN  IF outcome = "ok"
             THEN [gemini |-> [g1 EXCEPT !.successes = @ + 1], success |-> TRUE,
                   answer |-> <<"consulenza">>, called |-> TRUE, raised |-> FALSE]
             ELSE [gemini |-> g1, success |-> FALSE, answer |-> <<>>,
                   called |-> TRUE, raised |-> TRUE]

\* consult: `outcome` is what model.generate_content does ("ok" or "error");
\* `called` tells whether generate_content was called, `raised` whether an
\* exception leaves consult
consult(g, outcome) ==
    IF ~g.available
    THEN [gemini |-> g, success |-> FALSE, answer |-> <<"Gemini non disponibile">>,
          called |-> FALSE, raised |-> FALSE]
    ELSE LET g1 == [g EXCEPT !.consultations = @ + 1]
         IN  IF outcome = "ok"
             THEN [gemini |-> [g1 EXCEPT !.successes = @ + 1], success |-> TRUE,
                   answer |-> <<"consulenza">>, called |-> TRUE, raised |-> FALSE]
             ELSE [gemini |-> g1, success |-> FALSE, answer |-> <<"Errore Gemini", "quota">>,
                   called |-> TRUE, raised |-> FALSE]

\* get_stats: success_rate is formatted with one decimal; kept as the exact
\* rational successes / consultations * 100
gemini_get_stats(g) ==
    [name |-> g.name, consultations |-> g.consultations, successes |-> g.successes,
     success_rate |-> IF g.consultations > 0
                      THEN Rat(g.successes * 100, g.consultations)
                      ELSE RatOfInt(0),
     available |-> g.available]

-----------------------------------------------------------------------------
(* MavkusAI: initial aggregate *)

init_user_profile ==
    [style |-> "neutral",
     topics_of_interest |-> <<>>,
     conversation_count |-> 0,
     preferred_response_length |-> "medium",
     language_level |-> "medium",
     quality_metrics |->
        [avg_response_score |-> RatOfInt(0),
         improvement_trend |-> <<>>,
         weak_areas |-> <<>>,
         strong_areas |-> <<>>]]

init_learned_patterns ==
    [successful_responses |-> <<>>, failed_responses |-> <<>>,
     improvement_strategies |-> <<>>, gemini_consultations |-> <<>>]

init_routing_stats ==
    [total_questions |-> 0, routed_to_gemini |-> 0,
     handled_by_coordinator |-> 0, gemini_success_rate |-> 0]

-----------------------------------------------------------------------------
(* MavkusAI.analyze_user_message *)

science_interest_keywords == <<"fisica", "chimica", "biologia", "matematica", "scienza">>
coding_interest_keywords == <<"python", "javascript", "programmazione", "codice", "algoritmo">>

\* a classifier that tests the greeting markers before the politeness markers
style_of_greeting_first(message_lower) ==
    IF Contains("ciao", message_lower) \/ Contains("hey", message_lower)
    THEN "casual"
    ELSE IF Contains("gentilmente", message_lower) \/ Contains("per favore", message_lower)
    THEN "formal"
    ELSE IF Contains("funzione", message_lower) \/ Contains("codice", message_lower)
    THEN "technical"
    ELSE "neutral"

style_of(message_lower) ==
    IF Contains("gentilmente", message_lower) \/ Contains("per favore", message_lower)
    THEN "formal"
    ELSE IF Contains("ciao", message_lower) \/ Contains("hey", message_lower)
    THEN "casual"
    ELSE IF Contains("funzione", message_lower) \/ Contains("codice", message_lower)
    THEN "technical"
    ELSE "neutral"

\* a loop that appends every keyword the message contains, present or not
RECURSIVE scan_interests_appending_hits(_, _, _, _)
scan_interests_appending_hits(kws, i, message_lower, topics) ==
    IF i > Len(kws) THEN topics
    ELSE scan_interests_appending_hits(kws, i + 1, message_lower,
            IF Contains(kws[i], message_lower)
            THEN Append(topics, kws[i]) ELSE topics)

\* the for loop over science_keywords + coding_keywords, from keyword i on
RECURSIVE scan_interests(_, _, _, _)
scan_interests(kws, i, message_lower, topics) ==
    IF i > Len(kws) THEN topics
    ELSE scan_interests(kws, i + 1, message_lower,
            IF Contains(kws[i], message_lower) /\ ~InSeq(kws[i], topics)
            THEN Append(topics, kws[i]) ELSE topics)

analyze_user_message(profile, message) ==
    LET message_lower == Lower(message)
        topics == scan_interests(science_interest_keywords \o coding_interest_keywords,
                                 1, message_lower, profile.topics_of_interest)
    IN  [profile EXCEPT
            !.style = style_of(message_lower),
            !.topics_of_interest =
                IF Len(topics) > TOPICS_CAP THEN LastN(topics, TOPICS_CAP) ELSE topics]

-----------------------------------------------------------------------------
(* MavkusAI.should_route_to_gemini *)

science_keywords ==
    <<"fisica", "chimica", "biologia", "matematica", "atomo", "molecola", "cellula",
      "equazione", "teorema", "energia", "forza", "gravita", "relativita",
      "quantistica", "organico">>

strong_signal_keywords == <<"fisica", "chimica", "biologia">>

science_count(question_lower) ==
    Cardinality({i \in 1..Len(science_keywords) :
                    Contains(science_keywords[i], question_lower)})

\* a routing rule that counts the words holding a keyword, repeated words included
should_route_counting_occurrences(question) ==
    \/ Cardinality({i \in 1..Len(question) :
                       \E k \in 1..Len(science_keywords) :
                           Contains(science_keywords[k], Lower(<<question[i]>>))}) >= ROUTE_MIN
    \/ \E i \in 1..Len(strong_signal_keywords) :
            Contains(strong_signal_keywords[i], Lower(question))

should_route_to_gemini(question) ==
    LET question_lower == Lower(question)
    IN  \/ science_count(question_lower) >= ROUTE_MIN
        \/ \E i \in 1..Len(strong_signal_keywords) :
                Contains(strong_signal_keywords[i], question_lower)

-----------------------------------------------------------------------------
(* MavkusAI._critique_response *)

\* The critic's reply is a sequence of tokens: a code fence opening with the json
\* tag, a bare code fence, a word of prose, or one complete JSON text.
FenceJson == [tok |-> "fence_json"]
Fence == [tok |-> "fence"]
Prose == [tok |-> "prose"]
Json(v) == [tok |-> "json", val |-> v]

\* the three backticks of a bare fence are a prefix of the json fence, so
\* both tokens satisfy the bare-fence test
HasFence(t) == t.tok = "fence" \/ t.tok = "fence_json"

\* index of the first token from position i on that satisfies the test, or Len + 1
RECURSIVE FirstFenceJson(_, _)
FirstFenceJson(content, i) ==
    IF i > Len(content) THEN i
    ELSE IF content[i].tok = "fence_json" THEN i ELSE FirstFenceJson(content, i + 1)

RECURSIVE FirstFence(_, _)
FirstFence(content, i) ==
    IF i > Len(content) THEN i
    ELSE IF HasFence(content[i]) THEN i ELSE FirstFence(content, i + 1)

\* content.split(json fence)[1].split(fence)[0], else content.split(fence)[1].split(fence)[0],
\* else content
extract_json_str(content) ==
    IF \E i \in 1..Len(content) : content[i].tok = "fence_json"
    THEN LET a == FirstFenceJson(content, 1)
             b == FirstFence(content, a + 1)
         IN  SubSeq(content, a + 1, b - 1)
    ELSE IF \E i \in 1..Len(content) : HasFence(content[i])
    THEN LET a == FirstFence(content, 1)
             b == FirstFence(content, a + 1)
         IN  SubSeq(content, a + 1, b - 1)
    ELSE content

\* json.loads succeeds exactly on one complete JSON text
json_loads_ok(json_str) == Len(json_str) = 1 /\ json_str[1].tok = "json"

\* a fallback that scores the turn 5 instead of 7
fallback_critique_low ==
    Payload(TRUE, JNum(5), "object",
            << <<"rilevanza", JNum(5)>>, <<"chiarezza", JNum(5)>>,
               <<"completezza", JNum(5)>>, <<"accuratezza", JNum(5)>>,
               <<"utilita", JNum(5)>> >>)

fallback_critique ==
    Payload(TRUE, JNum(7), "object",
            << <<"rilevanza", JNum(7)>>, <<"chiarezza", JNum(7)>>,
               <<"completezza", JNum(7)>>, <<"accuratezza", JNum(7)>>,
               <<"utilita", JNum(7)>> >>)

\* critic is [failed |-> the invoke raised, content |-> the tokens of the reply]
critique_response(critic) ==
    IF critic.failed THEN fallback_critique
    ELSE LET json_str == extract_json_str(critic.content)
         IN  IF json_loads_ok(json_str) THEN json_str[1].val ELSE fallback_critique

-----------------------------------------------------------------------------
(* MavkusAI._learn_from_critique *)

\* (current_avg * (count - 1) + score) / count
updated_avg(current_avg, count, score) ==
    Rat(current_avg[1] * (count - 1) + score * current_avg[2], current_avg[2] * count)

\* a trend that, once full, keeps its oldest 20 scores and drops the new one
updated_trend_keeps_oldest(improvement_trend, score) ==
    FirstN(Append(improvement_trend, score), TREND_CAP)

\* improvement_trend.append(score), then the slice [-20:] when longer than 20
updated_trend(improvement_trend, score) ==
    LET trend == Append(improvement_trend, score)
    IN  IF Len(trend) > TREND_CAP THEN LastN(trend, TREND_CAP) ELSE trend

\* the for loop over critique["scores"].items() from item i on; a value that is
\* not a number raises at the comparison, after the earlier items were applied
RECURSIVE learn_areas(_, _, _, _)
learn_areas(scores, i, strong, weak) ==
    IF i > Len(scores) THEN [strong |-> strong, weak |-> weak, raised |-> FALSE]
    ELSE LET area == scores[i][1]
             value == scores[i][2]
         IN  IF ~IsNumber(value)
             THEN [strong |-> strong, weak |-> weak, raised |-> TRUE]
             ELSE IF value.n >= STRONG_MIN /\ ~InSeq(area, strong)
             THEN learn_areas(scores, i + 1, Append(strong, area), weak)
             ELSE IF value.n <= WEAK_MAX /\ ~InSeq(area, weak)
             THEN learn_areas(scores, i + 1, strong, Append(weak, area))
             ELSE learn_areas(scores, i + 1, strong, weak)

\* returns the profile as left by the method and whether an exception left it
learn_from_critique(profile, critique) ==
    IF critique.shape # "object"
    THEN [profile |-> profile, raised |-> TRUE]          \* critique.get: AttributeError
    ELSE
    LET score == IF critique.has_overall THEN critique.overall ELSE JNum(DEFAULT_SCORE)
        metrics == profile.quality_metrics
        count == profile.conversation_count
    IN  IF ~IsNumber(score) \/ count = 0
        THEN [profile |-> profile, raised |-> TRUE]      \* TypeError / ZeroDivisionError
        ELSE
        LET m1 == [metrics EXCEPT
                     !.avg_response_score = updated_avg(@, count, score.n),
                     !.improvement_trend = updated_trend(@, score.n)]
        IN  IF critique.scores_shape = "array"
            THEN [profile |-> [profile EXCEPT !.quality_metrics = m1],
                  raised |-> TRUE]                       \* list has no .items()
            ELSE
            LET r == learn_areas(critique.scores, 1, m1.strong_areas, m1.weak_areas)
                m2 == [m1 EXCEPT !.strong_areas = r.strong, !.weak_areas = r.weak]
                m3 == [m2 EXCEPT
                         !.strong_areas = IF Len(@) > AREAS_CAP THEN LastN(@, AREAS_CAP) ELSE @,
                         !.weak_areas = IF Len(@) > AREAS_CAP THEN LastN(@, AREAS_CAP) ELSE @]
            IN  IF r.raised
                THEN [profile |-> [profile EXCEPT !.quality_metrics = m2], raised |-> TRUE]
                ELSE [profile |-> [profile EXCEPT !.quality_metrics = m3], raised |-> FALSE]

-----------------------------------------------------------------------------
(* MavkusAI: memory *)

AbsentFile == [kind |-> "absent"]
\* a file whose text is not valid JSON (a write that failed part-way)
InvalidFile == [kind |-> "invalid"]

HumanMessage(content) == [type |-> "HumanMessage", content |-> content]
AIMessage(content) == [type |-> "AIMessage", content |-> content]

\* saved_message naming the roles as the ChatMessage of the design does
saved_message_roles_renamed(msg) ==
    [role |-> IF msg.type = "HumanMessage" THEN "user" ELSE "assistant",
     content |-> msg.content,
     timestamp |-> Now]

\* one element of the "chat_history" list written by save_memory
saved_message(msg) ==
    [role |-> IF msg.type = "HumanMessage" THEN "human" ELSE "ai",
     content |-> msg.content,
     timestamp |-> Now]

\* a record that keeps the last 49 messages
memory_data_window_49(self) ==
    [kind |-> "json",
     user_id |-> self.user_id,
     user_profile |-> self.user_profile,
     learned_patterns |-> self.learned_patterns,
     routing_stats |-> self.routing_stats,
     gemini_stats |-> gemini_get_stats(self.gemini),
     chat_history |->
        [i \in 1..Len(LastN(self.chat_history, 49)) |->
            saved_message(LastN(self.chat_history, 49)[i])],
     last_saved |-> Now]

\* the dictionary json.dump writes
memory_data(self) ==
    [kind |-> "json",
     user_id |-> self.user_id,
     user_profile |-> self.user_profile,
     learned_patterns |-> self.learned_patterns,
     routing_stats |-> self.routing_stats,
     gemini_stats |-> gemini_get_stats(self.gemini),
     chat_history |->
        [i \in 1..Len(LastN(self.chat_history, SAVE_WINDOW)) |->
            saved_message(LastN(self.chat_history, SAVE_WINDOW)[i])],
     last_saved |-> Now]

\* save_memory: the file afterwards. open(.., 'w') truncates the file before
\* json.dump writes it, so a write that fails leaves an invalid file; the
\* exception is logged and swallowed in every case.
save_memory(self, file, outcome) ==
    CASE outcome = "ok" -> memory_data(self)
      [] outcome = "open_fails" -> file
      [] OTHER -> InvalidFile

\* a save_memory without its try: a failure to open or write the file
\* leaves it as an exception
save_raises_on_failure(outcome) == outcome # "ok"

\* whether an exception leaves save_memory: its except clause logs and
\* swallows whatever the body raises
save_raises(outcome) == FALSE

\* the loop of load_memory over data["chat_history"] from entry i on; an entry
\* without "role" or "content" raises KeyError, which ends the loop
RECURSIVE rebuild_history(_, _, _)
rebuild_history(entries, i, history) ==
    IF i > Len(entries) THEN history
    ELSE IF "role" \notin DOMAIN entries[i] THEN history
    ELSE IF "content" \notin DOMAIN entries[i] THEN history
    ELSE rebuild_history(entries, i + 1,
            Append(history,
                   IF entries[i].role = "human"
                   THEN HumanMessage(entries[i].content)
                   ELSE AIMessage(entries[i].content)))

\* load_memory: the instance afterwards; every exception is logged and swallowed
load_memory(self, file) ==
    IF file.kind # "json" THEN self
    ELSE [self EXCEPT
            !.user_profile = file.user_profile,
            !.learned_patterns = file.learned_patterns,
            !.routing_stats = file.routing_stats,
            !.chat_history = rebuild_history(file.chat_history, 1, <<>>)]

\* clear_memory: the instance afterwards (the specialist object is not touched)
clear_memory(self) ==
    [self EXCEPT
        !.chat_history = <<>>,
        !.user_profile = init_user_profile,
        !.learned_patterns = init_learned_patterns,
        !.routing_stats = init_routing_stats]

\* MavkusAI.__init__ once the Groq key is known to be present
MavkusAI(user_id, groq_key, gemini_api_key, lib_ok, file) ==
    load_memory(
        [user_id |-> user_id,
         groq_key |-> groq_key,
         gemini |-> GeminiSpecialist(gemini_api_key, lib_ok),
         chat_history |-> <<>>,
         user_profile |-> init_user_profile,
         learned_patterns |-> init_learned_patterns,
         routing_stats |-> init_routing_stats],
        file)

get_stats(self) ==
    [user_id |-> self.user_id,
     user_profile |-> self.user_profile,
     gemini |-> gemini_get_stats(self.gemini),
     routing |-> self.routing_stats,
     conversation_count |-> self.user_profile.conversation_count]

-----------------------------------------------------------------------------
(* MavkusAI.chat *)

\* the text the generalist returns, and the text chat puts in its place when
\* model.invoke raises
generated_text == <<"risposta">>
error_text == <<"Errore generazione risposta", "timeout">>

\* a metadata dictionary that reports a turn as routed only when the
\* specialist was consulted
turn_metadata_routed_when_consulted(route_to_gemini, consulted, gemini_success, critique) ==
    [routed_to_gemini |-> consulted,
     gemini_used |-> IF consulted THEN gemini_success ELSE FALSE,
     critique |-> critique]

\* the metadata dictionary of a turn: gemini_response is None unless the
\* specialist was consulted
turn_metadata(route_to_gemini, consulted, gemini_success, critique) ==
    [routed_to_gemini |-> route_to_gemini,
     gemini_used |-> IF consulted THEN gemini_success ELSE FALSE,
     critique |-> critique]

SystemMessage(content) == [type |-> "SystemMessage", content |-> content]

\* _get_system_prompt: the text is kept as the values it interpolates
get_system_prompt(user_profile, routing_stats) ==
    [user_profile |-> user_profile,
     total_questions |-> routing_stats.total_questions,
     routed_to_gemini |-> routing_stats.routed_to_gemini,
     gemini_success_rate |-> routing_stats.gemini_success_rate,
     style |-> user_profile.style]

\* the system message that carries the specialist's answer
consultation_message(answer) == SystemMessage([consulenza |-> answer])

\* a message list with the specialist's answer placed after the history
generalist_messages_context_last(user_profile, routing_stats, gemini_success, answer, history) ==
    <<SystemMessage(get_system_prompt(user_profile, routing_stats))>>
        \o LastN(history, PROMPT_WINDOW)
        \o (IF gemini_success THEN <<consultation_message(answer)>> ELSE <<>>)

\* the list given to model.invoke: the system prompt, the specialist's answer
\* when the consultation succeeded, the last 10 messages of the history
generalist_messages(user_profile, routing_stats, gemini_success, answer, history) ==
    <<SystemMessage(get_system_prompt(user_profile, routing_stats))>>
        \o (IF gemini_success THEN <<consultation_message(answer)>> ELSE <<>>)
        \o LastN(history, PROMPT_WINDOW)

\* a self-evaluation that runs whatever the flag says and reports its critique
\* only when the flag is set
self_evaluation_unconditional(enable_critique, profile, critic) ==
    LET critique == critique_response(critic)
        learnt == learn_from_critique(profile, critique)
    IN  [critique |-> IF enable_critique THEN critique ELSE EmptyCritique,
         profile |-> learnt.profile, raised |-> learnt.raised, called |-> TRUE]

\* the self-evaluation of chat: with enable_critique the critic is called and
\* its critique folded into the profile, without it the critique stays {};
\* `called` tells whether critic_model.invoke was called
self_evaluation(enable_critique, profile, critic) ==
    IF enable_critique
    THEN LET critique == critique_response(critic)
             learnt == learn_from_critique(profile, critique)
         IN  [critique |-> critique, profile |-> learnt.profile,
              raised |-> learnt.raised, called |-> TRUE]
    ELSE [critique |-> EmptyCritique, profile |-> profile,
          raised |-> FALSE, called |-> FALSE]

\* a routing branch that counts a consulted turn for the coordinator as well
count_route_both(routing_stats, consulted) ==
    IF consulted
    THEN [routing_stats EXCEPT !.routed_to_gemini = @ + 1,
                               !.handled_by_coordinator = @ + 1]
    ELSE [routing_stats EXCEPT !.handled_by_coordinator = @ + 1]

\* the two branches of the routing decision: a turn that consults the
\* specialist counts as routed, every other turn as handled by the coordinator
count_route(routing_stats, consulted) ==
    IF consulted
    THEN [routing_stats EXCEPT !.routed_to_gemini = @ + 1]
    ELSE [routing_stats EXCEPT !.handled_by_coordinator = @ + 1]

\* in: what the collaborators do in this turn
\*   gemini: "ok" | "error"      generalist: "ok" | "error"
\*   critic: [failed, content]   save: "ok" | "open_fails" | "write_fails"
chat(self, file, user_message, enable_critique, in) ==
    LET \* analysis and counters
        p1 == analyze_user_message(self.user_profile, user_message)
        p2 == [p1 EXCEPT !.conversation_count = @ + 1]
        rs1 == [self.routing_stats EXCEPT !.total_questions = @ + 1]
        h1 == Append(self.chat_history, HumanMessage(user_message))
        \* routing decision
        route_to_gemini == should_route_to_gemini(user_message)
        consulted == route_to_gemini /\ self.gemini.available
        c == consult(self.gemini, in.gemini)
        gemini2 == IF consulted THEN c.gemini ELSE self.gemini
        gemini_success == consulted /\ c.success
        rs2 == count_route(rs1, consulted)
        lp2 == IF gemini_success
               THEN [self.learned_patterns EXCEPT
                       !.gemini_consultations =
                          Append(@, [timestamp |-> Now,
                                     question |-> FirstN(user_message, QUESTION_EXCERPT),
                                     success |-> TRUE])]
               ELSE self.learned_patterns
        \* messages for the generalist
        messages == generalist_messages(p2, rs2, gemini_success, c.answer, h1)
        \* generation
        ai_response == IF in.generalist = "ok" THEN generated_text ELSE error_text
        h2 == Append(h1, AIMessage(ai_response))
        \* self-evaluation
        learnt == self_evaluation(enable_critique, p2, in.critic)
        critique == learnt.critique
        self3 == [self EXCEPT
                    !.user_profile = learnt.profile,
                    !.routing_stats = rs2,
                    !.learned_patterns = lp2,
                    !.gemini = gemini2,
                    !.chat_history = h2]
        \* periodic save
        save_due == learnt.profile.conversation_count % SAVE_EVERY = 0
    IN  IF learnt.raised \/ (consulted /\ c.raised)
        THEN [self |-> self3, file |-> file, raised |-> TRUE, saves |-> 0,
              messages |-> messages, consulted |-> consulted, critique |-> critique,
              critic_called |-> learnt.called,
              response |-> <<>>,
              metadata |-> [routed_to_gemini |-> FALSE, gemini_used |-> FALSE,
                            critique |-> EmptyCritique]]
        ELSE IF save_due /\ save_raises(in.save)
        THEN [self |-> self3, file |-> save_memory(self3, file, in.save),
              raised |-> TRUE, saves |-> 1,
              messages |-> messages, consulted |-> consulted, critique |-> critique,
              critic_called |-> learnt.called,
              response |-> <<>>,
              metadata |-> [routed_to_gemini |-> FALSE, gemini_used |-> FALSE,
                            critique |-> EmptyCritique]]
        ELSE [self |-> self3,
              file |-> IF save_due THEN save_memory(self3, file, in.save) ELSE file,
              raised |-> FALSE,
              saves |-> IF save_due THEN 1 ELSE 0,
              messages |-> messages, consulted |-> consulted, critique |-> critique,
              critic_called |-> learnt.called,
              response |-> ai_response,
              metadata |-> turn_metadata(route_to_gemini, consulted, c.success, critique)]

-----------------------------------------------------------------------------
(* firebase_service: credentials *)

Users == {"u1", "u2"}

\* an API key is a positive number; 0 is "no key" (None or the empty string)
NoKey == 0

\* EncryptionService: Fernet tokens; the empty value maps to the empty string
encrypt(value) == IF value = NoKey THEN [cipher |-> NoKey] ELSE [cipher |-> value + 100]
decrypt(value) == IF value.cipher = NoKey THEN NoKey ELSE value.cipher - 100

NoDocument == [exists |-> FALSE, api_keys |-> <<>>]

\* FirebaseService.save_api_keys: the document afterwards and the returned flag.
\* document.update replaces the whole "api_keys" map and raises when the
\* document does not exist or the store is unreachable.
fb_save_api_keys(doc, groq_api_key, gemini_api_key, fs_ok) ==
    LET names == (IF groq_api_key # NoKey THEN {"groq"} ELSE {})
                 \cup (IF gemini_api_key # NoKey THEN {"gemini"} ELSE {})
        encrypted_keys ==
            [k \in names |-> IF k = "groq" THEN encrypt(groq_api_key)
                             ELSE encrypt(gemini_api_key)]
    IN  IF fs_ok /\ doc.exists
        THEN [doc |-> [doc EXCEPT !.api_keys = encrypted_keys], success |-> TRUE]
        ELSE [doc |-> doc, success |-> FALSE]

\* FirebaseService.get_api_keys: the decrypted keys, NoKey for one not stored;
\* any failure gives the empty dictionary
fb_get_api_keys(doc, fs_ok) ==
    IF ~fs_ok \/ ~doc.exists
    THEN [groq_api_key |-> NoKey, gemini_api_key |-> NoKey]
    ELSE [groq_api_key |-> IF "groq" \in DOMAIN doc.api_keys
                           THEN decrypt(doc.api_keys["groq"]) ELSE NoKey,
          gemini_api_key |-> IF "gemini" \in DOMAIN doc.api_keys
                             THEN decrypt(doc.api_keys["gemini"]) ELSE NoKey]

\* FirebaseService.create_user_profile: set a new document, or update the
\* login fields of an existing one (its api_keys are kept)
fb_create_user_profile(doc, fs_ok) ==
    IF ~fs_ok THEN doc
    ELSE IF doc.exists THEN doc
    ELSE [exists |-> TRUE, api_keys |-> <<>>]

-----------------------------------------------------------------------------
(* server: the memoised factory *)

NoInstance == [user_id |-> "-"]

Cached(u) == InSeq(u, cache)

\* functools.lru_cache bookkeeping: a hit moves the key to the most recent end
lru_touch(c, u) == SelectSeq(c, LAMBDA x : x # u) \o <<u>>

\* a miss appends the key and drops the least recent one beyond maxsize
lru_insert(c, u) ==
    IF Len(c) + 1 > LRU_MAXSIZE THEN Tail(c) \o <<u>> ELSE c \o <<u>>

\* genai.configure(api_key=api_key) in GeminiSpecialist.__init__: called when
\* the library is present and a key is given; it sets the key for the process
configure(current, api_key, lib_ok) ==
    IF lib_ok /\ api_key # NoKey THEN api_key ELSE current

\* _create_ai_instance(user_id): [ok, created, cache, ai, genai]. A call that raises
\* stores nothing in the cache.
create_ai_instance(u, fs_ok, lib_ok) ==
    IF Cached(u)
    THEN [ok |-> TRUE, created |-> FALSE, cache |-> lru_touch(cache, u), ai |-> ai,
          genai |-> genai]
    ELSE
    LET api_keys == fb_get_api_keys(firestore[u], fs_ok)
        groq_key == IF api_keys.groq_api_key # NoKey THEN api_keys.groq_api_key ELSE env
        c2 == lru_insert(cache, u)
    IN  IF groq_key = NoKey
        THEN [ok |-> FALSE, created |-> FALSE, cache |-> cache, ai |-> ai, genai |-> genai]
        ELSE [ok |-> TRUE, created |-> TRUE, cache |-> c2,
              genai |-> configure(genai, api_keys.gemini_api_key, lib_ok),
              ai |-> [x \in Users |->
                        IF x = u
                        THEN MavkusAI(u, groq_key, api_keys.gemini_api_key, lib_ok, files[u])
                        ELSE IF InSeq(x, c2) THEN ai[x] ELSE NoInstance]]

-----------------------------------------------------------------------------
(* History variables: per user, the turns processed, the critique scores
   folded in since the last clear (their number, sum and sequence), and the
   number of clears. Actions read
   them only in the guards that bound the exploration. *)

EmptyLog == [turns |-> 0, critiques |-> 0, score_sum |-> 0, clears |-> 0, scores |-> <<>>]

\* the overall score a critique contributes, when it has a numeric one
HasScore(critique) ==
    critique.shape = "object" /\ (critique.has_overall => IsNumber(critique.overall))
ScoreOf(critique) ==
    IF critique.has_overall THEN critique.overall.n ELSE DEFAULT_SCORE

log_turn(l, enable_critique, critique) ==
    IF enable_critique /\ HasScore(critique)
    THEN [l EXCEPT !.turns = @ + 1, !.critiques = @ + 1,
                   !.score_sum = @ + ScoreOf(critique),
                   !.scores = Append(@, ScoreOf(critique))]
    ELSE [l EXCEPT !.turns = @ + 1]

-----------------------------------------------------------------------------
(* server: handlers *)

\* no call of chat is in progress
Idle == [phase |-> "Idle"]

\* what the critic is recorded as in a turn that does not call it
NoCritic == [failed |-> FALSE, content |-> <<>>]

\* FirebaseService.get_user: the document, or None when absent or unreachable
get_user(doc, fs_ok) == fs_ok /\ doc.exists

\* save-keys calls get_ai_instance.cache_clear(); get_ai_instance is a plain
\* function, so the attribute lookup raises AttributeError and nothing is
\* cleared: the cache afterwards is the cache before
cache_clear(c) == c

\* POST /api/auth/create-profile
CreateUserProfile(u, fs_ok) ==
    /\ firestore' = [firestore EXCEPT ![u] = fb_create_user_profile(@, fs_ok)]
    /\ last' = [op |-> "create_profile", user |-> u,
                status |-> IF fs_ok THEN 200 ELSE 500, created |-> FALSE]
    /\ UNCHANGED <<env, cache, ai, files, log, restarts, loop, genai, turn>>

\* POST /api/auth/save-keys: every path through the handler ends in the
\* except clause, so the reply is always 500
SaveApiKeys(u, groq_api_key, gemini_api_key, fs_ok) ==
    LET r == fb_save_api_keys(firestore[u], groq_api_key, gemini_api_key, fs_ok)
        c2 == IF r.success THEN cache_clear(cache) ELSE cache
    IN  /\ firestore' = [firestore EXCEPT ![u] = r.doc]
        /\ cache' = c2
        /\ ai' = [x \in Users |-> IF InSeq(x, c2) THEN ai[x] ELSE NoInstance]
        /\ last' = [op |-> "save_keys", user |-> u, status |-> 500, created |-> FALSE,
                    stored |-> r.success,
                    groq_api_key |-> groq_api_key, gemini_api_key |-> gemini_api_key]
        /\ UNCHANGED <<env, files, log, restarts, loop, genai, turn>>

\* POST /api/init
InitializeAi(u, fs_ok, lib_ok) ==
    LET r == create_ai_instance(u, fs_ok, lib_ok)
    IN  IF ~get_user(firestore[u], fs_ok)
        THEN /\ last' = [op |-> "init", user |-> u, status |-> 404, created |-> FALSE,
                         failed |-> FALSE]
             /\ UNCHANGED <<firestore, env, cache, ai, files, log, restarts, loop, genai, turn>>
        ELSE /\ cache' = r.cache
             /\ ai' = r.ai
             /\ last' = [op |-> "init", user |-> u,
                         status |-> IF r.ok THEN 200 ELSE 500,
                         created |-> r.created, failed |-> ~r.ok]
             /\ genai' = r.genai
             /\ UNCHANGED <<firestore, env, files, log, restarts, loop, turn>>

\* GET /api/stats/{user_id}: a failure to build the instance is swallowed
GetUserStats(u, fs_ok, lib_ok) ==
    LET r == create_ai_instance(u, fs_ok, lib_ok)
    IN  IF ~get_user(firestore[u], fs_ok)
        THEN /\ last' = [op |-> "stats", user |-> u, status |-> 404, created |-> FALSE,
                         failed |-> FALSE]
             /\ UNCHANGED <<firestore, env, cache, ai, files, log, restarts, loop, genai, turn>>
        ELSE /\ cache' = r.cache
             /\ ai' = r.ai
             /\ last' = [op |-> "stats", user |-> u, status |-> 200,
                         created |-> r.created, failed |-> ~r.ok]
             /\ genai' = r.genai
             /\ UNCHANGED <<firestore, env, files, log, restarts, loop, turn>>

\* the body of chat_with_ai for a non-blank message; `limit` bounds the turns
\* explored
ChatTurn(u, message, enable_critique, in, limit) ==
    \E r \in {create_ai_instance(u, in.fs_ok, in.lib_ok)} :
    \E t \in {IF r.ok THEN chat(r.ai[u], files[u], message, enable_critique, in)
               ELSE [raised |-> TRUE]} :
        IF ~r.ok
        THEN /\ last' = [op |-> "chat", user |-> u, status |-> 500, created |-> FALSE,
                         called |-> FALSE, failed |-> TRUE]
             /\ UNCHANGED <<firestore, env, cache, ai, files, log, restarts, genai, turn>>
        ELSE /\ r.ai[u].user_profile.conversation_count < limit
             /\ log[u].turns < limit
             /\ cache' = r.cache
             /\ ai' = [r.ai EXCEPT ![u] = t.self]
             /\ files' = [files EXCEPT ![u] = t.file]
             /\ log' = [log EXCEPT ![u] = log_turn(@, enable_critique, t.critique)]
             /\ last' = [op |-> "chat", user |-> u,
                         status |-> IF t.raised THEN 500 ELSE 200,
                         created |-> r.created, called |-> TRUE, failed |-> FALSE,
                         message |-> message, enable_critique |-> enable_critique,
                         critic |-> IF enable_critique THEN in.critic ELSE NoCritic,
                         generalist |-> in.generalist,
                         gemini |-> in.gemini,
                         save |-> IF t.saves > 0 THEN in.save ELSE "none",
                         turn |-> t.self.user_profile.conversation_count,
                         raised |-> t.raised, saves |-> t.saves,
                         consulted |-> t.consulted, messages |-> t.messages,
                         critic_called |-> t.critic_called,
                         response |-> t.response, metadata |-> t.metadata]
             /\ genai' = r.genai
             /\ UNCHANGED <<firestore, env, restarts, turn>>

\* POST /api/chat handled from its arrival to its reply
ChatWithAi(u, message, enable_critique, in, limit) ==
    /\ ChatTurn(u, message, enable_critique, in, limit)
    /\ UNCHANGED loop

\* the phases of a turn in the order chat performs them
Phases == <<"Analyzing", "Routing", "Consulting", "Generating", "Critiquing", "Persisting">>

\* the instance whose chat is in progress
Self == ai[turn.user]

\* the test of chat on conversation_count before save_memory
SaveDue == Self.user_profile.conversation_count % SAVE_EVERY = 0

\* the turn in progress has performed phase p
Performed(p) == InSeq(p, turn.done)

\* the turn leaves phase p for phase q
Advance(p, q) == [turn EXCEPT !.phase = q, !.done = Append(@, p)]

\* ai.chat(message, enable_critique) is called on the cached instance of u;
\* `in` is what the collaborators will do during this turn
BeginTurn(u, message, enable_critique, in, limit) ==
    /\ turn.phase = "Idle"
    /\ Cached(u)
    /\ ai[u].user_profile.conversation_count < limit
    /\ log[u].turns < limit
    /\ turn' = [phase |-> "Analyzing", user |-> u, message |-> message,
                enable_critique |-> enable_critique, in |-> in,
                began |-> [self |-> ai[u], file |-> files[u]],
                done |-> <<>>,
                route_to_gemini |-> FALSE, consulted |-> FALSE,
                gemini_success |-> FALSE, answer |-> <<>>,
                messages |-> <<>>, ai_response |-> <<>>,
                critique |-> EmptyCritique, raised |-> FALSE, saves |-> 0]
    /\ UNCHANGED <<firestore, env, cache, ai, files, last, log, restarts, loop, genai>>

\* chat: analyze_user_message, the two increments, add_user_message
Analyze ==
    /\ turn.phase = "Analyzing"
    /\ ai' = [ai EXCEPT ![turn.user] =
                [@ EXCEPT
                    !.user_profile =
                        [analyze_user_message(@, turn.message) EXCEPT
                            !.conversation_count = @ + 1],
                    !.routing_stats = [@ EXCEPT !.total_questions = @ + 1],
                    !.chat_history = Append(@, HumanMessage(turn.message))]]
    /\ turn' = Advance("Analyzing", "Routing")
    /\ UNCHANGED <<firestore, env, cache, files, last, log, restarts, loop, genai>>

\* chat: the routing decision and the counter of the branch taken
Route ==
    /\ turn.phase = "Routing"
    /\ LET route_to_gemini == should_route_to_gemini(turn.message)
           consulted == route_to_gemini /\ Self.gemini.available
       IN  /\ ai' = [ai EXCEPT ![turn.user].routing_stats = count_route(@, consulted)]
           /\ turn' = [Advance("Routing", IF consulted THEN "Consulting" ELSE "Generating")
                          EXCEPT !.route_to_gemini = route_to_gemini,
                                 !.consulted = consulted]
    /\ UNCHANGED <<firestore, env, cache, files, last, log, restarts, loop, genai>>

\* chat: gemini.consult and the record of a successful consultation
ConsultSpecialist ==
    /\ turn.phase = "Consulting"
    /\ LET c == consult(Self.gemini, turn.in.gemini)
       IN  /\ ai' = [ai EXCEPT ![turn.user] =
                       [@ EXCEPT
                           !.gemini = c.gemini,
                           !.learned_patterns.gemini_consultations =
                               IF c.success
                               THEN Append(@, [timestamp |-> Now,
                                               question |-> FirstN(turn.message,
                                                                   QUESTION_EXCERPT),
                                               success |-> TRUE])
                               ELSE @]]
           /\ turn' = [Advance("Consulting", "Generating")
                          EXCEPT !.gemini_success = c.success, !.answer = c.answer]
    /\ UNCHANGED <<firestore, env, cache, files, last, log, restarts, loop, genai>>

\* chat: the message list, model.invoke and add_ai_message, with the response
\* or with the error text
Generate ==
    /\ turn.phase = "Generating"
    /\ LET ai_response == IF turn.in.generalist = "ok" THEN generated_text ELSE error_text
       IN  /\ ai' = [ai EXCEPT ![turn.user].chat_history = Append(@, AIMessage(ai_response))]
           /\ turn' = [Advance("Generating",
                               IF turn.enable_critique THEN "Critiquing"
                               ELSE IF SaveDue THEN "Persisting" ELSE "Returning")
                          EXCEPT !.messages =
                                    generalist_messages(Self.user_profile, Self.routing_stats,
                                                        turn.gemini_success, turn.answer,
                                                        Self.chat_history),
                                 !.ai_response = ai_response]
    /\ UNCHANGED <<firestore, env, cache, files, last, log, restarts, loop, genai>>

\* chat: _critique_response and _learn_from_critique; an exception of the
\* latter leaves chat
Critique ==
    /\ turn.phase = "Critiquing"
    /\ LET critique == critique_response(turn.in.critic)
           learnt == learn_from_critique(Self.user_profile, critique)
       IN  /\ ai' = [ai EXCEPT ![turn.user].user_profile = learnt.profile]
           /\ turn' = [Advance("Critiquing",
                               IF learnt.raised THEN "Returning"
                               ELSE IF SaveDue THEN "Persisting" ELSE "Returning")
                          EXCEPT !.critique = critique, !.raised = learnt.raised]
    /\ UNCHANGED <<firestore, env, cache, files, last, log, restarts, loop, genai>>

\* chat: save_memory
Persist ==
    /\ turn.phase = "Persisting"
    /\ files' = [files EXCEPT ![turn.user] = save_memory(Self, @, turn.in.save)]
    /\ turn' = [Advance("Persisting", "Returning")
                   EXCEPT !.saves = 1, !.raised = save_raises(turn.in.save)]
    /\ UNCHANGED <<firestore, env, cache, ai, last, log, restarts, loop, genai>>

\* chat returns (response, metadata), or its exception reaches the handler,
\* which replies 500
ReturnTurn ==
    /\ turn.phase = "Returning"
    /\ last' = [op |-> "chat", user |-> turn.user,
                status |-> IF turn.raised THEN 500 ELSE 200,
                created |-> FALSE, called |-> TRUE, failed |-> FALSE,
                message |-> turn.message, enable_critique |-> turn.enable_critique,
                critic |-> IF turn.enable_critique THEN turn.in.critic ELSE NoCritic,
                generalist |-> turn.in.generalist,
                gemini |-> turn.in.gemini,
                save |-> IF turn.saves > 0 THEN turn.in.save ELSE "none",
                turn |-> Self.user_profile.conversation_count,
                raised |-> turn.raised, saves |-> turn.saves,
                consulted |-> turn.consulted, messages |-> turn.messages,
                critic_called |-> Performed("Critiquing"),
                response |-> IF turn.raised THEN <<>> ELSE turn.ai_response,
                metadata |-> IF turn.raised
                             THEN [routed_to_gemini |-> FALSE, gemini_used |-> FALSE,
                                   critique |-> EmptyCritique]
                             ELSE turn_metadata(turn.route_to_gemini, turn.consulted,
                                                turn.gemini_success, turn.critique)]
    /\ log' = [log EXCEPT ![turn.user] = log_turn(@, turn.enable_critique, turn.critique)]
    /\ turn' = Idle
    /\ UNCHANGED <<firestore, env, cache, ai, files, restarts, loop, genai>>

\* the statements of a call of chat in progress
TurnStep ==
    \/ Analyze
    \/ Route
    \/ ConsultSpecialist
    \/ Generate
    \/ Critique
    \/ Persist
    \/ ReturnTurn

\* MavkusAI.clear_memory on the cached instance of u (os.remove succeeds)
ClearMemory(u) ==
    /\ Cached(u)
    /\ log[u].clears < MaxClears
    /\ ai' = [ai EXCEPT ![u] = clear_memory(@)]
    /\ files' = [files EXCEPT ![u] = AbsentFile]
    /\ log' = [log EXCEPT ![u] = [EmptyLog EXCEPT !.clears = log[u].clears + 1]]
    /\ last' = [op |-> "clear", user |-> u, status |-> 200, created |-> FALSE]
    /\ UNCHANGED <<firestore, env, cache, restarts, loop, genai, turn>>

\* GeminiSpecialist.consult called on the specialist of the cached instance of u
Consult(u, outcome) ==
    /\ Cached(u)
    /\ ai[u].gemini.consultations < MaxConsults
    /\ LET c == consult(ai[u].gemini, outcome)
       IN  /\ ai' = [ai EXCEPT ![u].gemini = c.gemini]
           /\ last' = [op |-> "consult", user |-> u, status |-> 200, created |-> FALSE,
                       before |-> ai[u].gemini, outcome |-> outcome,
                       success |-> c.success, answer |-> c.answer,
                       called |-> c.called, raised |-> c.raised]
    /\ UNCHANGED <<firestore, env, cache, files, log, restarts, loop, genai, turn>>

\* MavkusAI.should_route_to_gemini applied to a message
ShouldRoute(message) ==
    /\ last' = [op |-> "route", user |-> "-", status |-> 200, created |-> FALSE,
                message |-> message, result |-> should_route_to_gemini(message)]
    /\ UNCHANGED <<firestore, env, cache, ai, files, log, restarts, loop, genai, turn>>

\* the event loop with no request accepted and none being handled
EmptyLoop == [ready |-> <<>>, running |-> <<>>]

\* the profile a turn for u starts from
ProfileBefore(u) ==
    IF Cached(u) THEN ai[u].user_profile
    ELSE IF files[u].kind = "json" THEN files[u].user_profile
    ELSE init_user_profile

\* requests for u that the loop holds, accepted or being handled
pending(u) ==
    Len(SelectSeq(loop.ready, LAMBDA r : r.user = u))
        + Len(SelectSeq(loop.running, LAMBDA r : r.user = u))

\* a chat request for u arrives while the loop may be busy: it waits its turn
AcceptChat(u) ==
    /\ Len(loop.ready) + Len(loop.running) < MaxPending
    /\ log[u].turns + pending(u) < MaxScoreTurns
    /\ loop' = [loop EXCEPT !.ready = Append(@, [user |-> u])]
    /\ UNCHANGED <<firestore, env, cache, ai, files, last, log, restarts, genai, turn>>

\* handlers dispatched to worker threads, as plain def endpoints are: a
\* handler can start while another is running
loop_never_busy(l) == TRUE

\* chat_with_ai is a coroutine with no await in its body and ai.chat is a
\* plain call: the event loop starts it only when no other handler is running
loop_idle(l) == l.running = <<>>

\* the loop starts the handler of the oldest accepted request; the turn begins
\* with the conversation_count it finds
StartTurn ==
    /\ loop.ready # <<>>
    /\ loop_idle(loop)
    /\ LET u == Head(loop.ready).user
       IN  loop' = [ready |-> Tail(loop.ready),
                    running |-> Append(loop.running,
                                       [user |-> u,
                                        seen |-> ProfileBefore(u).conversation_count])]
    /\ UNCHANGED <<firestore, env, cache, ai, files, last, log, restarts, genai, turn>>

\* a running handler completes its turn and replies
FinishTurn(message, in) ==
    \E i \in 1..Len(loop.running) :
        /\ ChatTurn(loop.running[i].user, message, FALSE, in, MaxScoreTurns)
        /\ loop' = [loop EXCEPT !.running =
                        SubSeq(@, 1, i - 1) \o SubSeq(@, i + 1, Len(@))]

\* the server process is restarted: the in-process cache starts empty, the
\* memory files and the credential store remain
Restart ==
    /\ cache # <<>>
    /\ restarts < MaxRestarts
    /\ restarts' = restarts + 1
    /\ cache' = <<>>
    /\ ai' = [x \in Users |-> NoInstance]
    /\ last' = [op |-> "restart", user |-> "-", status |-> 200, created |-> FALSE]
    /\ loop' = EmptyLoop
    /\ genai' = NoKey
    /\ turn' = Idle
    /\ UNCHANGED <<firestore, env, files, log>>

\* the memory file of u is damaged outside the program: its first chat_history
\* entry loses its "role" key (the text stays valid JSON)
TamperRecord(u) ==
    /\ files[u].kind = "json"
    /\ Len(files[u].chat_history) > 0
    /\ "role" \in DOMAIN files[u].chat_history[1]
    /\ files' = [files EXCEPT ![u].chat_history[1] =
                    [content |-> @.content, timestamp |-> @.timestamp]]
    /\ last' = [op |-> "tamper", user |-> u, status |-> 200, created |-> FALSE]
    /\ UNCHANGED <<firestore, env, cache, ai, log, restarts, loop, genai, turn>>

-----------------------------------------------------------------------------
(* Inputs explored *)

EnvGroqKey == 9

Scores(pairs) == [i \in 1..Len(pairs) |-> <<pairs[i][1], JNum(pairs[i][2])>>]

\* well-formed payloads
Critique8 ==
    Payload(TRUE, JNum(8), "object",
            Scores(<< <<"rilevanza", 9>>, <<"chiarezza", 5>>, <<"completezza", 7>> >>))
Critique6 ==
    Payload(TRUE, JNum(6), "object",
            Scores(<< <<"rilevanza", 4>>, <<"utilita", 8>> >>))
Critique10 ==
    Payload(TRUE, JNum(10), "object",
            Scores(<< <<"accuratezza", 10>>, <<"utilita", 9>>, <<"tono", 8>>,
                      <<"stile", 9>>, <<"chiarezza", 9>> >>))
\* an object with neither "overall_score" nor "scores"
CritiqueBare == Payload(FALSE, JNull, "absent", <<>>)
\* payloads of other shapes
CritiqueTextScore == Payload(TRUE, JStr, "object", Scores(<< <<"rilevanza", 9>> >>))
CritiqueListScores == Payload(TRUE, JNum(9), "array", <<>>)
CritiqueTextValue ==
    Payload(TRUE, JNum(9), "object",
            Scores(<< <<"rilevanza", 9>>, <<"chiarezza", 9>>, <<"completezza", 9>>,
                      <<"accuratezza", 9>>, <<"utilita", 9>>, <<"tono", 9>> >>)
            \o << <<"sintesi", JStr>> >>)

Reply(content) == [failed |-> FALSE, content |-> content]
CriticDown == [failed |-> TRUE, content |-> <<>>]

\* replies that carry a JSON text the code can extract
ParsableReplies ==
    { Reply(<<Json(Critique8)>>),
      Reply(<<Prose, FenceJson, Json(Critique6), Fence, Prose>>),
      Reply(<<Fence, Json(Critique10), Fence>>),
      Reply(<<Json(CritiqueBare)>>),
      Reply(<<Json(ArrayPayload)>>),
      Reply(<<FenceJson, Json(CritiqueTextScore), Fence>>),
      Reply(<<Json(CritiqueListScores)>>),
      Reply(<<Json(CritiqueTextValue)>>) }

\* replies with no JSON text to extract, and the critic call failing
UnusableReplies ==
    { CriticDown,
      Reply(<<Prose>>),
      Reply(<<Prose, Json(Critique8)>>),
      Reply(<<FenceJson, Prose, Fence>>) }

TurnMessage == <<"Ciao", "come", "stai">>
MemoryMessage == <<"differenza", "tra", "Atomo", "e", "molecola", "in", "chimica">>

Collaborators(gemini, generalist, critic, save) ==
    [fs_ok |-> TRUE, lib_ok |-> TRUE, gemini |-> gemini, generalist |-> generalist,
     critic |-> critic, save |-> save]

-----------------------------------------------------------------------------
(* Specifications *)

\* a user registered with both keys stored
ReadyDocument ==
    [exists |-> TRUE, api_keys |-> [k \in {"groq", "gemini"} |-> encrypt(1)]]

Start == [op |-> "start", user |-> "-", status |-> 200, created |-> FALSE]

\* the server after start-up with an empty credential store
Init ==
    /\ firestore = [u \in Users |-> NoDocument]
    /\ env \in {NoKey, EnvGroqKey}
    /\ cache = <<>>
    /\ ai = [u \in Users |-> NoInstance]
    /\ files = [u \in Users |-> AbsentFile]
    /\ last = Start
    /\ log = [u \in Users |-> EmptyLog]
    /\ restarts = 0
    /\ loop = EmptyLoop
    /\ genai = NoKey
    /\ turn = Idle

\* the server after start-up with user u1 registered and its keys stored
InitReady ==
    /\ firestore = [u \in Users |-> IF u = "u1" THEN ReadyDocument ELSE NoDocument]
    /\ env = NoKey
    /\ cache = <<>>
    /\ ai = [u \in Users |-> NoInstance]
    /\ files = [u \in Users |-> AbsentFile]
    /\ last = Start
    /\ log = [u \in Users |-> EmptyLog]
    /\ restarts = 0
    /\ loop = EmptyLoop
    /\ genai = NoKey
    /\ turn = Idle

\* every handler, two users, short conversations
Next ==
    \/ \E u \in Users : CreateUserProfile(u, TRUE)
    \/ \E g \in {NoKey, 1, 2}, fs_ok \in BOOLEAN : SaveApiKeys("u1", g, 1, fs_ok)
    \/ \E u \in Users : InitializeAi(u, TRUE, TRUE)
    \/ \E u \in Users : GetUserStats(u, TRUE, TRUE)
    \/ \E u \in Users :
            ChatWithAi(u, MemoryMessage, FALSE,
                       Collaborators("ok", "ok", NoCritic, "ok"), MaxServerTurns)
    \/ \E u \in Users : ClearMemory(u)
    \/ Restart

Spec == Init /\ [][Next]_vars

\* one user, every shape of critic reply, with and without critique
NextTurn ==
    \/ \E critic \in ParsableReplies \cup UnusableReplies :
            ChatWithAi("u1", TurnMessage, TRUE,
                       Collaborators("ok", "ok", critic, "ok"), MaxTurns)
    \/ \E save \in {"open_fails", "write_fails"} :
            ChatWithAi("u1", TurnMessage, TRUE,
                       Collaborators("ok", "ok", Reply(<<Json(Critique8)>>), save), MaxTurns)
    \/ ChatWithAi("u1", TurnMessage, FALSE,
                  Collaborators("ok", "ok", NoCritic, "ok"), MaxTurns)

SpecTurn == InitReady /\ [][NextTurn]_vars

\* one user, long conversations, saves, restarts, damaged files
NextMemory ==
    \/ \E save \in {"ok", "open_fails", "write_fails"} :
            ChatWithAi("u1", MemoryMessage, TRUE,
                       Collaborators("ok", "ok", Reply(<<Json(Critique8)>>), save),
                       MaxDeepTurns)
    \/ InitializeAi("u1", TRUE, TRUE)
    \/ Restart
    \/ TamperRecord("u1")

SpecMemory == InitReady /\ [][NextMemory]_vars

\* one user, routed questions with the specialist answering or failing, clears
NextClear ==
    \/ \E gemini \in {"ok", "error"} :
            ChatWithAi("u1", MemoryMessage, FALSE,
                       Collaborators(gemini, "ok", NoCritic, "ok"), MaxTurns)
    \/ InitializeAi("u1", TRUE, TRUE)
    \/ ClearMemory("u1")

SpecClear == InitReady /\ [][NextClear]_vars

\* one user, critic replies that are well formed or unusable, with and without critique
NextScore ==
    \/ \E critic \in { Reply(<<Json(Critique8)>>),
                       Reply(<<Prose, FenceJson, Json(Critique6), Fence, Prose>>),
                       Reply(<<Fence, Json(Critique10), Fence>>) } \cup UnusableReplies :
            ChatWithAi("u1", TurnMessage, TRUE,
                       Collaborators("ok", "ok", critic, "ok"), MaxScoreTurns)
    \/ ChatWithAi("u1", TurnMessage, FALSE,
                  Collaborators("ok", "ok", NoCritic, "ok"), MaxScoreTurns)

SpecScore == InitReady /\ [][NextScore]_vars

\* one user, the generalist answering or failing, the critic replying an object
\* or a list, with and without critique
NextGen ==
    \/ \E generalist \in {"ok", "error"} :
       \E critic \in {Reply(<<Json(Critique8)>>), Reply(<<Json(ArrayPayload)>>)} :
            ChatWithAi("u1", TurnMessage, TRUE,
                       Collaborators("ok", generalist, critic, "ok"), MaxTurns)
    \/ \E generalist \in {"ok", "error"} :
            ChatWithAi("u1", TurnMessage, FALSE,
                       Collaborators("ok", generalist, NoCritic, "ok"), MaxTurns)

SpecGen == InitReady /\ [][NextGen]_vars

\* one user whose specialist is available or not, routed and unrouted
\* questions, the specialist answering or failing, direct consultations
NextConsult ==
    \/ \E lib_ok \in BOOLEAN : InitializeAi("u1", TRUE, lib_ok)
    \/ \E gemini \in {"ok", "error"} :
            ChatWithAi("u1", MemoryMessage, FALSE,
                       Collaborators(gemini, "ok", NoCritic, "ok"), MaxScoreTurns)
    \/ ChatWithAi("u1", TurnMessage, FALSE,
                  Collaborators("ok", "ok", NoCritic, "ok"), MaxScoreTurns)
    \/ \E outcome \in {"ok", "error"} : Consult("u1", outcome)

SpecConsult == InitReady /\ [][NextConsult]_vars

\* words for the routing rule: keywords in either case, a strong keyword, a
\* strong keyword inside a longer word, and words that are no keyword
RouteVocabulary == {"Atomo", "molecola", "FISICA", "biofisica", "come"}

RouteMessages ==
    UNION {[1..n -> RouteVocabulary] : n \in 1..MaxLen}

\* the routing rule on every message of up to MaxLen words
NextRoute == \E message \in RouteMessages : ShouldRoute(message)

SpecRoute == InitReady /\ [][NextRoute]_vars

\* a second user registered with keys of its own
OtherDocument ==
    [exists |-> TRUE, api_keys |-> [k \in {"groq", "gemini"} |-> encrypt(2)]]

\* the server after start-up with both users registered and their keys stored
InitServe ==
    /\ firestore = [u \in Users |-> IF u = "u1" THEN ReadyDocument ELSE OtherDocument]
    /\ env = NoKey
    /\ cache = <<>>
    /\ ai = [u \in Users |-> NoInstance]
    /\ files = [u \in Users |-> AbsentFile]
    /\ last = Start
    /\ log = [u \in Users |-> EmptyLog]
    /\ restarts = 0
    /\ loop = EmptyLoop
    /\ genai = NoKey
    /\ turn = Idle

\* chat requests of two users arriving while others are handled
NextServe ==
    \/ \E u \in Users : AcceptChat(u)
    \/ StartTurn
    \/ FinishTurn(TurnMessage, Collaborators("ok", "ok", NoCritic, "ok"))

SpecServe == InitServe /\ [][NextServe]_vars

\* two users with keys of their own: routed questions, saves, rebuilds from
\* the record after a restart, clears
NextIsolation ==
    \/ ChatWithAi("u1", MemoryMessage, FALSE,
                  Collaborators("ok", "ok", NoCritic, "ok"), MaxTurns)
    \/ ChatWithAi("u2", MemoryMessage, FALSE,
                  Collaborators("ok", "ok", NoCritic, "ok"), MaxServerTurns)
    \/ InitializeAi("u2", TRUE, TRUE)
    \/ ClearMemory("u1")
    \/ Restart

SpecIsolation == InitServe /\ [][NextIsolation]_vars

\* one user whose specialist is available or not: routed questions with the
\* specialist answering or failing, unrouted questions whose critique is a
\* list, saves and rebuilds from the record after a restart
NextCounters ==
    \/ \E lib_ok \in BOOLEAN : InitializeAi("u1", TRUE, lib_ok)
    \/ \E gemini \in {"ok", "error"} :
            ChatWithAi("u1", MemoryMessage, FALSE,
                       Collaborators(gemini, "ok", NoCritic, "ok"), MaxTurns)
    \/ ChatWithAi("u1", TurnMessage, TRUE,
                  Collaborators("ok", "ok", Reply(<<Json(ArrayPayload)>>), "ok"), MaxTurns)
    \/ Restart

SpecCounters == InitReady /\ [][NextCounters]_vars

\* one user, conversations longer than the prompt window: routed questions
\* with the specialist answering or failing, unrouted questions with and
\* without critique
NextPrompt ==
    \/ \E gemini \in {"ok", "error"} :
            ChatWithAi("u1", MemoryMessage, FALSE,
                       Collaborators(gemini, "ok", NoCritic, "ok"), MaxPromptTurns)
    \/ ChatWithAi("u1", TurnMessage, TRUE,
                  Collaborators("ok", "ok", Reply(<<Json(Critique8)>>), "ok"), MaxPromptTurns)
    \/ ChatWithAi("u1", TurnMessage, FALSE,
                  Collaborators("ok", "ok", NoCritic, "ok"), MaxPromptTurns)

SpecPrompt == InitReady /\ [][NextPrompt]_vars

\* one user whose specialist is available or not; each turn performed one
\* phase at a time: routed questions, unrouted questions whose critique is an
\* object or a list, every fifth turn due for a save. No other handler runs
\* while a turn is in progress.
NextPipeline ==
    \/ \E lib_ok \in BOOLEAN : turn.phase = "Idle" /\ InitializeAi("u1", TRUE, lib_ok)
    \/ \E gemini \in {"ok", "error"} :
            BeginTurn("u1", MemoryMessage, FALSE,
                      Collaborators(gemini, "ok", NoCritic, "ok"), MaxTurns)
    \/ \E critic \in {Reply(<<Json(Critique8)>>), Reply(<<Json(ArrayPayload)>>)} :
            BeginTurn("u1", TurnMessage, TRUE,
                      Collaborators("ok", "ok", critic, "ok"), MaxTurns)
    \/ TurnStep

SpecPipeline == InitReady /\ [][NextPipeline]_vars

\* every external call returns or fails: a statement of chat that can run
\* eventually runs
SpecPipelineLive == SpecPipeline /\ WF_vars(TurnStep)

\* the critic replies explored in turn n of a long conversation: the score
\* varies in the first turns and in those after the trend is full
TrendReplies(n) ==
    IF n <= 2 \/ n > TREND_CAP
    THEN { Reply(<<Json(Critique8)>>),
           Reply(<<Prose, FenceJson, Json(Critique6), Fence, Prose>>) }
    ELSE { Reply(<<Fence, Json(Critique10), Fence>>) }

\* one user, a conversation with more critiques than the trend holds, some
\* turns without critique
NextTrend ==
    \/ \E critic \in TrendReplies(ProfileBefore("u1").conversation_count + 1) :
            ChatWithAi("u1", TurnMessage, TRUE,
                       Collaborators("ok", "ok", critic, "ok"), MaxTrendTurns)
    \/ /\ ProfileBefore("u1").conversation_count + 1 \notin 3..TREND_CAP
       /\ ChatWithAi("u1", TurnMessage, FALSE,
                     Collaborators("ok", "ok", NoCritic, "ok"), MaxTrendTurns)

SpecTrend == InitReady /\ [][NextTrend]_vars

\* messages for the style classifier: each marker alone, two markers of
\* different rank, a marker of two words, its words apart and in the other
\* order, a marker inside a longer word, and no marker
StyleMessages ==
    { <<"gentilmente", "Ciao">>,
      <<"Per", "favore", "codice">>,
      <<"per", "codice", "favore">>,
      <<"favore", "per">>,
      <<"Ciao", "funzione">>,
      <<"they", "come">>,
      <<"funzione">>,
      <<"come", "stai">> }

\* one user, short conversations in which the style cues change from turn to turn
NextStyle ==
    \E message \in StyleMessages :
        ChatWithAi("u1", message, FALSE,
                   Collaborators("ok", "ok", NoCritic, "ok"), MaxStyleTurns)

SpecStyle == InitReady /\ [][NextStyle]_vars

\* messages for the interest scan: keywords of both lists, in an order that
\* is not the order of the lists, one inside a longer word, repeated ones,
\* and none
TopicMessages ==
    { <<"Python", "e", "biofisica">>,
      <<"scienza", "matematica", "biologia", "chimica", "FISICA">>,
      <<"javascript", "programmazione", "codice", "algoritmo">>,
      <<"algoritmo", "FISICA">>,
      <<"come", "stai">> }

\* one user, conversations that name every interest keyword, and clears
NextTopics ==
    \/ \E message \in TopicMessages :
            ChatWithAi("u1", message, FALSE,
                       Collaborators("ok", "ok", NoCritic, "ok"), MaxTopicTurns)
    \/ ClearMemory("u1")

SpecTopics == InitReady /\ [][NextTopics]_vars

\* one user whose record starts absent, conversations over two due saves:
\* critiques that are objects or lists, saves that succeed or cannot open the
\* file, rebuilds after a restart, and clears
NextCadence ==
    \/ \E save \in {"ok", "open_fails"} :
            ChatWithAi("u1", TurnMessage, TRUE,
                       Collaborators("ok", "ok", Reply(<<Json(Critique8)>>), save),
                       MaxCadenceTurns)
    \/ ChatWithAi("u1", TurnMessage, TRUE,
                  Collaborators("ok", "ok", Reply(<<Json(ArrayPayload)>>), "ok"),
                  MaxCadenceTurns)
    \/ InitializeAi("u1", TRUE, TRUE)
    \/ Restart
    \/ ClearMemory("u1")

SpecCadence == InitReady /\ [][NextCadence]_vars

\* one user, conversations longer than the save window, a save every fifth
\* turn, rebuilds from the record after a restart
NextHistory ==
    \/ ChatWithAi("u1", MemoryMessage, TRUE,
                  Collaborators("ok", "ok", Reply(<<Json(Critique8)>>), "ok"),
                  MaxDeepTurns)
    \/ InitializeAi("u1", TRUE, TRUE)
    \/ Restart

SpecHistory == InitReady /\ [][NextHistory]_vars

-----------------------------------------------------------------------------
(* Properties *)

Profile(u) == ai[u].user_profile
Metrics(u) == ai[u].user_profile.quality_metrics

\* the aggregate of u is the one a new MavkusAI starts with
FreshAggregate(u) ==
    /\ ai[u].user_profile = init_user_profile
    /\ ai[u].learned_patterns = init_learned_patterns
    /\ ai[u].routing_stats = init_routing_stats
    /\ ai[u].chat_history = <<>>

ChatDone == last.op = "chat" /\ last.called

\* C1: after save-keys has stored a user's credentials, no instance cached for
\* that user is served any more, and a request served for a user whose
\* document holds a Groq key uses an instance built with that key.
C1_StoredKeysInvalidateCache ==
    /\ (last.op = "save_keys" /\ last.stored) => ~Cached(last.user)
    /\ (/\ last.op \in {"init", "chat", "stats"}
        /\ last.status = 200
        /\ Cached(last.user)
        /\ "groq" \in DOMAIN firestore[last.user].api_keys)
       => ai[last.user].groq_key = decrypt(firestore[last.user].api_keys["groq"])

\* C2: every call of chat on a constructed orchestrator returns its
\* (response, metadata) pair and raises nothing, whatever the collaborators do.
C2_ChatNeverRaises == ChatDone => (~last.raised /\ last.status = 200)

\* C3: avg_response_score is the arithmetic mean of the overall scores of the
\* critiques performed since the aggregate was empty (0.0 when there were none).
C3_AvgIsMeanOfCritiques ==
    \A u \in Users :
        Cached(u) =>
            LET avg == Metrics(u).avg_response_score
            IN  IF log[u].critiques = 0
                THEN avg = <<0, 1>>
                ELSE avg[1] * log[u].critiques = log[u].score_sum * avg[2]

\* C4: conversation_count of a user's instance is the number of chat turns
\* processed for that user since the last clear, also across a rebuild of the
\* instance from the persisted record.
C4_CountIsTurnsSinceClear ==
    \A u \in Users : Cached(u) => Profile(u).conversation_count = log[u].turns

\* C5: a chat turn calls save_memory once when conversation_count after the
\* increment of the turn is a multiple of 5, and not at all otherwise.
C5_SaveEveryFifthTurn ==
    ChatDone => last.saves = (IF last.turn % 5 = 0 THEN 1 ELSE 0)

\* a record load_memory cannot use: missing, not JSON, or with a chat_history
\* entry that lacks a key
UnusableRecord(file) ==
    \/ file.kind # "json"
    \/ \E i \in 1..Len(file.chat_history) :
            {"role", "content"} \ DOMAIN file.chat_history[i] # {}

\* C6: an instance built while the record of its user is missing, unreadable or
\* malformed starts from the fresh default aggregate.
C6_CorruptRecordIsAbsent ==
    (last.op = "init" /\ last.created /\ UnusableRecord(files[last.user]))
        => FreshAggregate(last.user)

\* the last 50 messages of a history
Last50(h) == IF Len(h) <= 50 THEN h ELSE SubSeq(h, Len(h) - 49, Len(h))

\* C7: saving an instance and loading the record into a new instance for the
\* same user gives back the profile, the learned patterns, the routing stats
\* and the last 50 (role, content) messages in order.
C7_SaveLoadRoundTrip ==
    \A u \in Users :
        Cached(u) =>
            LET record == save_memory(ai[u], files[u], "ok")
                loaded == MavkusAI(u, ai[u].groq_key, NoKey, TRUE, record)
            IN  /\ loaded.user_profile = ai[u].user_profile
                /\ loaded.learned_patterns = ai[u].learned_patterns
                /\ loaded.routing_stats = ai[u].routing_stats
                /\ loaded.chat_history = Last50(ai[u].chat_history)

\* a turn has just saved a history longer than 50 messages, so the record
\* holds its last 50 only
C7_Witness ==
    /\ ChatDone /\ last.saves = 1 /\ last.save = "ok"
    /\ Len(ai[last.user].chat_history) > 50
    /\ Len(files[last.user].chat_history) = 50

\* C8: after clear_memory the record of the user does not exist and the
\* aggregate is the initial one, the specialist counters included.
C8_ClearResetsAggregate ==
    last.op = "clear" =>
        /\ files[last.user].kind = "absent"
        /\ FreshAggregate(last.user)
        /\ ai[last.user].gemini.consultations = 0
        /\ ai[last.user].gemini.successes = 0

\* C9: after every completed chat turn the four bounded lists are within their
\* capacities 10, 20, 5 and 5.
C9_CapacityBounds ==
    (ChatDone /\ ~last.raised) =>
        /\ Len(Profile(last.user).topics_of_interest) <= 10
        /\ Len(Metrics(last.user).improvement_trend) <= 20
        /\ Len(Metrics(last.user).strong_areas) <= 5
        /\ Len(Metrics(last.user).weak_areas) <= 5

\* the critic call failed, or its reply holds no JSON text once a fence is
\* stripped: prose only, or prose around an unfenced JSON text
CriticUnusable(critic) ==
    \/ critic.failed
    \/ \A i \in 1..Len(critic.content) : critic.content[i].tok # "json"
    \/ /\ \A i \in 1..Len(critic.content) : ~HasFence(critic.content[i])
       /\ Len(critic.content) > 1

\* the fixed neutral payload: five scores, all 7, and overall_score 7.0
IsNeutralPayload(critique) ==
    /\ critique.shape = "object"
    /\ critique.has_overall /\ critique.overall = JNum(7)
    /\ critique.scores_shape = "object"
    /\ Len(critique.scores) = 5
    /\ \A i \in 1..5 : critique.scores[i][2] = JNum(7)

\* C10: in a turn whose critic call fails or whose critic reply does not parse,
\* the critique is the fixed neutral payload, chat raises nothing, and
\* avg_response_score becomes (avg * (n - 1) + 7.0) / n for n the turn count.
C10_FallbackCritique ==
    [][ (/\ last'.op = "chat" /\ last'.called
         /\ last'.enable_critique
         /\ CriticUnusable(last'.critic))
        => LET u == last'.user
               before == ProfileBefore(u).quality_metrics.avg_response_score
               after == ai'[u].user_profile.quality_metrics.avg_response_score
               n == ai'[u].user_profile.conversation_count
           IN  /\ ~last'.raised
               /\ IsNeutralPayload(last'.metadata.critique)
               /\ after[1] * (before[2] * n) = (before[1] * (n - 1) + 7 * before[2]) * after[2]
      ]_vars

\* a turn whose critic reply was fenced prose ended with the neutral payload
\* and an average that moved
C10_Witness ==
    /\ ChatDone /\ last.enable_critique
    /\ last.critic = Reply(<<FenceJson, Prose, Fence>>)
    /\ IsNeutralPayload(last.metadata.critique)
    /\ last.turn = 2
    /\ Metrics(last.user).avg_response_score = <<15, 2>>

\* the last two messages of the history of u are the user message of the turn
\* and the response text
HistoryGained(u, message, response) ==
    LET h == ai[u].chat_history
    IN  /\ Len(h) >= 2
        /\ h[Len(h) - 1] = HumanMessage(message)
        /\ h[Len(h)] = AIMessage(response)

\* C11: a turn in which the generalist fails returns a response that begins
\* with the error marker, the history gains the user message and that response,
\* the critique runs when enabled, and the save is made on a multiple of 5.
C11_GenerationFailure ==
    (ChatDone /\ last.generalist = "error") =>
        /\ ~last.raised
        /\ last.response # <<>>
        /\ last.response[1] = "Errore generazione risposta"
        /\ HistoryGained(last.user, last.message, last.response)
        /\ last.enable_critique => last.metadata.critique = critique_response(last.critic)
        /\ last.turn % 5 = 0 => last.saves = 1

\* C12: a turn whose message the routing predicate accepts while the specialist
\* is unavailable consults nobody, still returns the generalist's response, and
\* reports routed_to_gemini true and gemini_used false; in every turn
\* gemini_used implies routed_to_gemini.
C12_SpecialistUnavailable ==
    /\ (/\ ChatDone
        /\ should_route_to_gemini(last.message)
        /\ ~ai[last.user].gemini.available)
       => /\ ~last.consulted
          /\ ai[last.user].gemini.consultations = 0
          /\ ~last.raised
          /\ last.response = generated_text
          /\ last.metadata.routed_to_gemini
          /\ ~last.metadata.gemini_used
    /\ (ChatDone /\ last.metadata.gemini_used) => last.metadata.routed_to_gemini

\* a routed question was answered by an instance whose specialist is unavailable
C12_Witness ==
    /\ ChatDone /\ ~last.raised
    /\ last.message = MemoryMessage
    /\ ~ai[last.user].gemini.available
    /\ last.metadata.routed_to_gemini
    /\ last.turn = 2

\* the fixed science keyword set and its strong-signal keywords
ScienceSet ==
    {"fisica", "chimica", "biologia", "matematica", "atomo", "molecola", "cellula",
     "equazione", "teorema", "energia", "forza", "gravita", "relativita",
     "quantistica", "organico"}
StrongSet == {"fisica", "chimica", "biologia"}

\* the distinct keywords the lowercased message contains
KeywordsIn(message) ==
    {k \in ScienceSet : \E i \in 1..Len(message) : k \in substrings(lower(message[i]))}

\* C13: should_route_to_gemini is true exactly when the lowercased message
\* contains at least 2 distinct science keywords or at least one strong-signal
\* keyword.
C13_RoutingRule ==
    last.op = "route" =>
        (last.result <=> \/ Cardinality(KeywordsIn(last.message)) >= 2
                         \/ KeywordsIn(last.message) \cap StrongSet # {})

\* a message with exactly 2 keywords, neither of them strong, was routed
C13_Witness ==
    /\ last.op = "route"
    /\ last.result
    /\ KeywordsIn(last.message) = {"atomo", "molecola"}
    /\ Len(last.message) = 3

\* C14: every call of consult adds exactly 1 to the consultation counter, and
\* adds 1 to the success counter exactly when it returns success.
C14_ConsultCounters ==
    last.op = "consult" =>
        LET g == ai[last.user].gemini
        IN  /\ g.consultations = last.before.consultations + 1
            /\ g.successes = last.before.successes + (IF last.success THEN 1 ELSE 0)

\* C15: consult raises nothing; unavailable, it returns success false without
\* calling the capability or touching the success counter; when the capability
\* fails it returns success false with an error text, and a chat turn that
\* consulted a failing specialist still returns its response.
C15_ConsultNeverFaults ==
    /\ last.op = "consult" =>
            /\ ~last.raised
            /\ ~last.before.available =>
                    /\ ~last.success /\ ~last.called
                    /\ ai[last.user].gemini.successes = last.before.successes
            /\ (last.before.available /\ last.outcome = "error") =>
                    /\ ~last.success
                    /\ last.answer # <<>> /\ last.answer[1] = "Errore Gemini"
    /\ (ChatDone /\ last.consulted /\ last.gemini = "error") =>
            /\ ~last.raised
            /\ last.response = generated_text
            /\ ~last.metadata.gemini_used

\* a routed turn consulted a specialist that failed and still answered, after
\* direct consultations that failed and that found the specialist available
C15_Witness ==
    /\ ChatDone /\ last.consulted /\ last.gemini = "error"
    /\ last.response = generated_text
    /\ ai[last.user].gemini.consultations = 3
    /\ ai[last.user].gemini.successes = 1

\* the turn that the step to the next state performed, run again from the
\* state before it with a save that succeeds
SameTurnSaved ==
    chat(create_ai_instance(last'.user, TRUE, TRUE).ai[last'.user], files[last'.user],
         last'.message, last'.enable_critique,
         Collaborators(last'.gemini, last'.generalist, last'.critic, "ok"))

\* C16: a save that fails raises nothing, leaves the profile, the learned
\* patterns, the routing stats and the history as a successful save would, and
\* the turn returns the same (response, metadata).
C16_FailedSaveIsSilent ==
    [][ (/\ last'.op = "chat" /\ last'.called
         /\ last'.saves = 1
         /\ last'.save # "ok")
        => /\ ~last'.raised
           /\ ai'[last'.user] = SameTurnSaved.self
           /\ last'.response = SameTurnSaved.response
           /\ last'.metadata = SameTurnSaved.metadata
           /\ SameTurnSaved.saves = 1
      ]_vars

\* the tenth turn returned its response although writing the record failed
\* and left an invalid file
C16_Witness ==
    /\ ChatDone /\ last.saves = 1 /\ last.save = "write_fails"
    /\ last.turn = 10
    /\ last.response = generated_text
    /\ files[last.user] = InvalidFile

\* a Groq key can be found for u: in its document or in the environment
KeyAvailable(u) ==
    \/ env # NoKey
    \/ fb_get_api_keys(firestore[u], TRUE).groq_api_key # NoKey

\* the last operation was a request that needed the instance of its user
InstanceRequest == last.op \in {"init", "chat", "stats"} /\ last.status # 404

\* C17: a request whose construction of the orchestrator fails ends in a
\* user-facing error and leaves no cache entry for the user, so a request made
\* once a key is available constructs the instance and succeeds.
C17_FailureNotCached ==
    /\ (InstanceRequest /\ last.failed) =>
            /\ last.status >= 400
            /\ ~Cached(last.user)
    /\ (InstanceRequest /\ KeyAvailable(last.user)) =>
            /\ ~last.failed
            /\ Cached(last.user)

\* C18: two turns for the same user are never in progress together, and a
\* turn in progress still finds the conversation_count it began with: no other
\* turn for its user has mutated the aggregate since.
C18_PerUserSerialization ==
    /\ \A i, j \in 1..Len(loop.running) :
            i # j => loop.running[i].user # loop.running[j].user
    /\ \A i \in 1..Len(loop.running) :
            loop.running[i].seen =
                ProfileBefore(loop.running[i].user).conversation_count

\* a turn for u1 is in progress, after an earlier one completed, while two
\* more requests for u1 wait
C18_Witness ==
    /\ Len(loop.running) = 1
    /\ loop.running[1].user = "u1"
    /\ loop.running[1].seen = 1
    /\ loop.ready = <<[user |-> "u1"], [user |-> "u1"]>>

\* C19: after every chat turn the gemini_success_rate of the routing stats is
\* the rate the specialist reports, successes / consultations * 100, or 0
\* when there were no consultations.
C19_RoutingSuccessRate ==
    (ChatDone /\ ~last.raised) =>
        RatOfInt(ai[last.user].routing_stats.gemini_success_rate)
            = gemini_get_stats(ai[last.user].gemini).success_rate

\* the step to the next state is an operation performed for user a
OperationFor(a) ==
    last'.op \in {"chat", "init", "clear"} /\ last'.user = a

\* C20: an operation performed for user A leaves the aggregate and the record
\* of every other user B unchanged, and changes no state that B's instance
\* shares with A's other than the instance cache.
C20_UserIsolation ==
    [][ \A a, b \in Users :
            (a # b /\ OperationFor(a)) =>
                /\ ai'[b] = ai[b]
                /\ files'[b] = files[b]
                /\ log'[b] = log[b]
                /\ (Cached(b) /\ ai[b].gemini.available) => genai' = genai
      ]_vars

\* the routing stats a turn for u starts from
RoutingBefore(u) ==
    IF Cached(u) THEN ai[u].routing_stats
    ELSE IF files[u].kind = "json" THEN files[u].routing_stats
    ELSE init_routing_stats

\* the specialist a turn for u finds: the cached one, or the one a new
\* instance is built with
AvailableBefore(u) ==
    IF Cached(u) THEN ai[u].gemini.available
    ELSE GeminiSpecialist(fb_get_api_keys(firestore[u], TRUE).gemini_api_key, TRUE).available

\* C21: every chat turn adds 1 to total_questions and 1 to exactly one of
\* routed_to_gemini (the predicate accepts and the specialist is available) and
\* handled_by_coordinator (otherwise); in every state total_questions =
\* routed_to_gemini + handled_by_coordinator = conversation_count.
C21_RoutingCountersPartition ==
    [][ /\ \A u \in Users :
             InSeq(u, cache') =>
                LET rs == ai'[u].routing_stats
                IN  /\ rs.total_questions = rs.routed_to_gemini + rs.handled_by_coordinator
                    /\ rs.total_questions = ai'[u].user_profile.conversation_count
        /\ (last'.op = "chat" /\ last'.called) =>
             LET u == last'.user
                 before == RoutingBefore(u)
                 after == ai'[u].routing_stats
                 routed == should_route_to_gemini(last'.message) /\ AvailableBefore(u)
             IN  /\ after.total_questions = before.total_questions + 1
                 /\ after.routed_to_gemini =
                        before.routed_to_gemini + (IF routed THEN 1 ELSE 0)
                 /\ after.handled_by_coordinator =
                        before.handled_by_coordinator + (IF routed THEN 0 ELSE 1)
      ]_vars

\* five turns were counted, two of them routed, and the counters came back
\* from the record when the instance was rebuilt after a restart
C21_Witness ==
    /\ last.op = "init" /\ last.created /\ restarts = 1
    /\ ai[last.user].routing_stats.total_questions = 5
    /\ ai[last.user].routing_stats.routed_to_gemini = 2
    /\ ai[last.user].routing_stats.handled_by_coordinator = 3

\* the successes the specialist of u has counted when a turn for u starts
SuccessesBefore(u) == IF Cached(u) THEN ai[u].gemini.successes ELSE 0

\* the messages of a list that are system messages
SystemMessagesOf(m) == {i \in 1..Len(m) : m[i].type = "SystemMessage"}

\* C22: the list passed to the generalist is, in order, one system prompt built
\* from the profile and routing stats as this turn has already updated them,
\* one specialist-context system message exactly when this turn's consultation
\* succeeded, then at most the last 10 history messages, ending with this
\* turn's user message.
C22_GeneralistInput ==
    [][ (last'.op = "chat" /\ last'.called) =>
            LET u == last'.user
                m == last'.messages
                succeeded == ai'[u].gemini.successes = SuccessesBefore(u) + 1
                k == IF succeeded THEN 2 ELSE 1
                h == ai'[u].chat_history
                h1 == SubSeq(h, 1, Len(h) - 1)
                n == IF Len(h1) < 10 THEN Len(h1) ELSE 10
            IN  /\ SystemMessagesOf(m) = 1..k
                /\ m[1].content.user_profile =
                        [ai'[u].user_profile EXCEPT
                            !.quality_metrics = ProfileBefore(u).quality_metrics]
                /\ m[1].content.user_profile.style = style_of(Lower(last'.message))
                /\ m[1].content.user_profile.conversation_count = last'.turn
                /\ m[1].content.total_questions = ai'[u].routing_stats.total_questions
                /\ m[1].content.routed_to_gemini = ai'[u].routing_stats.routed_to_gemini
                /\ succeeded => m[2] = consultation_message(<<"consulenza">>)
                /\ Len(m) = k + n
                /\ \A i \in 1..n : m[k + i] = h1[Len(h1) - n + i]
                /\ m[Len(m)] = HumanMessage(last'.message)
      ]_vars

\* the sixth turn consulted the specialist with success: the list held the
\* prompt, the specialist's answer and 10 of the 11 history messages
C22_Witness ==
    /\ ChatDone /\ last.turn = 6
    /\ last.consulted /\ last.gemini = "ok"
    /\ Len(last.messages) = 12
    /\ last.messages[2].type = "SystemMessage"
    /\ last.messages[3].type = "AIMessage"
    /\ last.messages[12] = HumanMessage(MemoryMessage)

\* the place of a phase in the order of the pipeline
PhaseRank(p) == CHOOSE i \in 1..Len(Phases) : Phases[i] = p

\* the phases performed so far are in the order of the pipeline, none twice
InPipelineOrder ==
    \A i, j \in 1..Len(turn.done) :
        i < j => PhaseRank(turn.done[i]) < PhaseRank(turn.done[j])

\* the step-wise turn leaves the instance, the record and the reply exactly as
\* chat taken as one step leaves them
PipelineRefinesChat ==
    [][ turn.phase = "Returning" =>
            LET t == chat(turn.began.self, turn.began.file, turn.message,
                          turn.enable_critique, turn.in)
            IN  /\ ai'[turn.user] = t.self
                /\ files'[turn.user] = t.file
                /\ last'.raised = t.raised
                /\ last'.saves = t.saves
                /\ last'.messages = t.messages
                /\ last'.critic_called = t.critic_called
                /\ last'.response = t.response
                /\ last'.metadata = t.metadata
      ]_vars

\* a turn about to leave chat has performed exactly the phases the claim names
PhasesAsClaimed ==
    turn.phase = "Returning" =>
        /\ Performed("Analyzing") /\ Performed("Routing") /\ Performed("Generating")
        /\ Performed("Consulting") <=>
                (should_route_to_gemini(turn.message) /\ turn.began.self.gemini.available)
        /\ Performed("Critiquing") <=> turn.enable_critique
        /\ Performed("Persisting") <=> (Self.user_profile.conversation_count % 5 = 0)

\* C23: every turn performs Analyzing, Routing, Consulting (exactly when the
\* predicate accepts and the specialist is available), Generating, Critiquing
\* (when enabled) and Persisting (when due) in this order, no phase twice, and
\* every started turn eventually returns to Idle.
C23_TurnPipeline ==
    /\ [](turn.phase # "Idle" => (InPipelineOrder /\ PhasesAsClaimed))
    /\ (turn.phase # "Idle") ~> (turn.phase = "Idle")

\* C24: after k critiqued turns since an empty aggregate, improvement_trend is
\* the overall scores of the last min(k, 20) critiques, oldest first.
C24_TrendContents ==
    \A u \in Users :
        Cached(u) =>
            LET trend == Metrics(u).improvement_trend
                k == Len(log[u].scores)
                n == IF k < 20 THEN k ELSE 20
            IN  /\ Len(trend) = n
                /\ \A i \in 1..n : trend[i] = log[u].scores[k - n + i]

\* 22 critiques were made: the trend holds the last 20, the scores 8 and 6 of
\* the first two are gone and the newest score is last
C24_Witness ==
    /\ ChatDone /\ last.enable_critique
    /\ log[last.user].critiques = 22
    /\ SubSeq(log[last.user].scores, 1, 3) = <<8, 6, 10>>
    /\ Len(Metrics(last.user).improvement_trend) = 20
    /\ Metrics(last.user).improvement_trend[1] = 10
    /\ Metrics(last.user).improvement_trend[19] = 8
    /\ Metrics(last.user).improvement_trend[20] = 6

\* the names of the criteria of a critique, in the order of its scores, that
\* are scored within lo..hi and are not in the list `present`
CriteriaScored(critique, lo, hi, present) ==
    LET hits == SelectSeq(critique.scores,
                          LAMBDA pr : /\ IsNumber(pr[2])
                                      /\ pr[2].n >= lo /\ pr[2].n <= hi
                                      /\ ~InSeq(pr[1], present))
    IN  [i \in 1..Len(hits) |-> hits[i][1]]

\* the last 5 entries of a list
Last5(xs) == IF Len(xs) <= 5 THEN xs ELSE SubSeq(xs, Len(xs) - 4, Len(xs))

NoDuplicates(xs) == \A i, j \in 1..Len(xs) : i # j => xs[i] # xs[j]

\* C25: _learn_from_critique appends to strong_areas every criterion scored
\* >= 8 that is not in it, to weak_areas every criterion scored <= 5 that is not
\* in it, leaves both alone for scores 6 and 7, keeps the 5 most recently added
\* entries of each list, and no list ever holds a criterion twice.
C25_StrongWeakAreas ==
    [][ /\ \A u \in Users :
             InSeq(u, cache') =>
                /\ NoDuplicates(ai'[u].user_profile.quality_metrics.strong_areas)
                /\ NoDuplicates(ai'[u].user_profile.quality_metrics.weak_areas)
        /\ (/\ last'.op = "chat" /\ last'.called /\ last'.enable_critique
            /\ critique_response(last'.critic).shape = "object"
            /\ critique_response(last'.critic).scores_shape # "array"
            /\ HasScore(critique_response(last'.critic)))
           => LET critique == critique_response(last'.critic)
                  before == ProfileBefore(last'.user).quality_metrics
                  after == ai'[last'.user].user_profile.quality_metrics
              IN  /\ after.strong_areas =
                        Last5(before.strong_areas
                                \o CriteriaScored(critique, 8, 10, before.strong_areas))
                  /\ after.weak_areas =
                        Last5(before.weak_areas
                                \o CriteriaScored(critique, 1, 5, before.weak_areas))
      ]_vars

\* the cue lists of the style rule
PolitenessMarkers == {"gentilmente", "per favore"}
GreetingMarkers == {"ciao", "hey"}
TechnicalMarkers == {"funzione", "codice"}

\* the lowercased message has one of the markers
HasMarker(message, markers) == Lower(message) \cap markers # {}

\* C26: after each turn the style is determined by that turn's message alone:
\* formal with a politeness marker, else casual with a greeting marker, else
\* technical with a technical marker, else neutral.
C26_StyleOverwritten ==
    ChatDone =>
        Profile(last.user).style =
            IF HasMarker(last.message, PolitenessMarkers) THEN "formal"
            ELSE IF HasMarker(last.message, GreetingMarkers) THEN "casual"
            ELSE IF HasMarker(last.message, TechnicalMarkers) THEN "technical"
            ELSE "neutral"

\* a turn without any marker made the style neutral after a formal turn and a
\* casual turn
C26_Witness ==
    /\ ChatDone /\ last.turn = 3
    /\ last.message = <<"favore", "per">>
    /\ Profile(last.user).style = "neutral"
    /\ ai[last.user].chat_history[1] = HumanMessage(<<"Per", "favore", "codice">>)
    /\ ai[last.user].chat_history[3] = HumanMessage(<<"they", "come">>)

\* the interest keywords of both lists
InterestKeywords ==
    {"fisica", "chimica", "biologia", "matematica", "scienza",
     "python", "javascript", "programmazione", "codice", "algoritmo"}

\* user message i of a history names keyword k
Names(history, i, k) ==
    history[i].type = "HumanMessage" /\ k \in Lower(history[i].content)

\* the place of the first message that names keyword k, or 0 when none does
FirstSeen(k, history) ==
    IF \E i \in 1..Len(history) : Names(history, i, k)
    THEN CHOOSE i \in 1..Len(history) :
            Names(history, i, k) /\ \A j \in 1..(i - 1) : ~Names(history, j, k)
    ELSE 0

\* C27: topics_of_interest has no duplicates, holds interest keywords in the
\* order in which messages first named them, loses a keyword only by capacity
\* eviction or clear, and when it would exceed 10 entries drops the oldest.
C27_TopicsOfInterest ==
    [][ (last'.op = "chat" /\ last'.called) =>
            LET u == last'.user
                before == ProfileBefore(u).topics_of_interest
                after == ai'[u].user_profile.topics_of_interest
                history == ai'[u].chat_history
                new == {k \in InterestKeywords :
                            k \in Lower(last'.message) /\ ~InSeq(k, before)}
                excess == Len(before) + Cardinality(new) - 10
                d == IF excess > 0 THEN excess ELSE 0
                kept == Len(before) - d
            IN  /\ NoDuplicates(after)
                /\ \A i \in 1..Len(after) :
                        after[i] \in InterestKeywords /\ FirstSeen(after[i], history) > 0
                /\ \A i \in 1..(Len(after) - 1) :
                        FirstSeen(after[i], history) <= FirstSeen(after[i + 1], history)
                /\ Len(after) = kept + Cardinality(new)
                /\ \A i \in 1..kept : after[i] = before[d + i]
                /\ {after[i] : i \in (kept + 1)..Len(after)} = new
      ]_vars

\* three turns named all ten keywords, one of them twice: the list holds each
\* once, in the order the messages first named them
C27_Witness ==
    /\ ChatDone /\ last.turn = 3
    /\ last.message = <<"scienza", "matematica", "biologia", "chimica", "FISICA">>
    /\ Profile(last.user).topics_of_interest
            = <<"javascript", "programmazione", "codice", "algoritmo", "fisica", "python",
                "chimica", "biologia", "matematica", "scienza">>

\* the instance a request for u is served by: the cached one, or the one built
\* from the record
InstanceBefore(u) == create_ai_instance(u, TRUE, TRUE).ai[u]

\* C28: a chat turn with enable_critique = false does not call the critic,
\* returns an empty critique, leaves avg_response_score, improvement_trend,
\* strong_areas and weak_areas unchanged, and updates conversation_count, the
\* routing counters and the history as any other turn does.
C28_CritiqueDisabled ==
    [][ (last'.op = "chat" /\ last'.called /\ ~last'.enable_critique) =>
            LET u == last'.user
                before == InstanceBefore(u)
                after == ai'[u]
            IN  /\ ~last'.critic_called
                /\ ~last'.raised
                /\ last'.metadata.critique = EmptyCritique
                /\ after.user_profile.quality_metrics = before.user_profile.quality_metrics
                /\ after.user_profile.conversation_count
                        = before.user_profile.conversation_count + 1
                /\ after.routing_stats.total_questions
                        = before.routing_stats.total_questions + 1
                /\ after.routing_stats.routed_to_gemini
                        + after.routing_stats.handled_by_coordinator
                        = before.routing_stats.routed_to_gemini
                            + before.routing_stats.handled_by_coordinator + 1
                /\ after.chat_history =
                        before.chat_history
                            \o <<HumanMessage(last'.message), AIMessage(last'.response)>>
      ]_vars

\* a routed turn without critique followed two critiqued turns and left their
\* metrics as they were
C28_Witness ==
    /\ ChatDone /\ ~last.enable_critique /\ ~last.critic_called
    /\ last.turn = 3 /\ last.consulted
    /\ Metrics(last.user).improvement_trend = <<8, 8>>
    /\ Metrics(last.user).avg_response_score = <<8, 1>>
    /\ Metrics(last.user).strong_areas = <<"rilevanza">>
    /\ Metrics(last.user).weak_areas = <<"chiarezza">>

\* a history of user and assistant messages in turn, starting with a user
\* message and ending with a response
Alternating(h) ==
    /\ Len(h) % 2 = 0
    /\ \A i \in 1..Len(h) :
            h[i].type = IF i % 2 = 1 THEN "HumanMessage" ELSE "AIMessage"

\* the same for the entries of a record
SavedAlternating(entries) ==
    /\ Len(entries) % 2 = 0
    /\ \A i \in 1..Len(entries) :
            entries[i].role = IF i % 2 = 1 THEN "human" ELSE "ai"

\* a record as save_memory wrote it: JSON whose entries all have their keys
WrittenBySave(file) == ~UnusableRecord(file)

\* C29: every chat turn adds exactly two messages to the history, the user
\* message and then the response, so the history alternates user/assistant,
\* starts with a user message and has even length; so do the history written by
\* save (the last 50) and the history load rebuilds from such a record.
C29_HistoryShape ==
    [][ /\ \A u \in Users :
             /\ InSeq(u, cache') => Alternating(ai'[u].chat_history)
             /\ WrittenBySave(files'[u]) =>
                    /\ SavedAlternating(files'[u].chat_history)
                    /\ Len(files'[u].chat_history) <= SAVE_WINDOW
                    /\ Alternating(load_memory(MavkusAI(u, 1, NoKey, TRUE, AbsentFile),
                                               files'[u]).chat_history)
        /\ (last'.op = "chat" /\ last'.called) =>
             LET h == ai'[last'.user].chat_history
             IN  /\ Len(h) = Len(InstanceBefore(last'.user).chat_history) + 2
                 /\ h[Len(h) - 1] = HumanMessage(last'.message)
                 /\ h[Len(h)].type = "AIMessage"
      ]_vars

\* an instance rebuilt after a restart from a record saved at turn 30: the
\* live history had 60 messages, the record and the rebuilt history have the
\* last 50, starting with a user message
C29_Witness ==
    /\ last.op = "init" /\ last.created /\ restarts = 1
    /\ Profile(last.user).conversation_count = 30
    /\ WrittenBySave(files[last.user])
    /\ Len(files[last.user].chat_history) = 50
    /\ Len(ai[last.user].chat_history) = 50
    /\ ai[last.user].chat_history[1].type = "HumanMessage"

\* the conversation_count a record holds
StoredCount(file) == file.user_profile.conversation_count

\* the conversation_count of an instance rebuilt from the record of u
ReconstructedCount(u) ==
    load_memory(MavkusAI(u, 1, NoKey, TRUE, AbsentFile), files[u])
        .user_profile.conversation_count

\* C30: for a user whose record started absent, whenever a record exists its
\* conversation_count is a positive multiple of 5, is at most the live
\* conversation_count and is at most 4 behind it, so an instance rebuilt from
\* the record loses at most the last 4 turns.
C30_SnapshotCadence ==
    \A u \in Users :
        (Cached(u) /\ files[u].kind = "json") =>
            /\ StoredCount(files[u]) > 0
            /\ StoredCount(files[u]) % SAVE_EVERY = 0
            /\ StoredCount(files[u]) <= Profile(u).conversation_count
            /\ Profile(u).conversation_count - StoredCount(files[u]) <= SAVE_EVERY - 1
            /\ Profile(u).conversation_count - ReconstructedCount(u) <= SAVE_EVERY - 1

====
